---- MODULE Spec2Model ----
(***************************************************************************)
(* A model of glob-cpp (include/glob-cpp/glob.h): the lexer, the           *)
(* recursive-descent parser with brace expansion, the AST-to-automaton     *)
(* compiler (AstConsumer), the automaton interpreter (Automata::Exec and   *)
(* the State::Next / State::Check methods) and the ExtendedGlob /          *)
(* BasicGlob facade with its two exception policies.                       *)
(*                                                                         *)
(* Characters are one-character strings; a pattern or an input is a        *)
(* sequence of characters.  Positions keep the source's 0-based indices,   *)
(* so str[pos] of the source is str[pos + 1] here.                         *)
(***************************************************************************)
EXTENDS Integers, Sequences, FiniteSets, TLC

(***************************************************************************)
(* Characters                                                              *)
(***************************************************************************)

\* The value of a one-point function: With([x \in {v} |-> e]) is e with x
\* bound to the value v, which is computed once.
With(f) == f[CHOOSE x \in DOMAIN f : TRUE]

\* Lexer::kEndOfInput: the value c_ takes once the pattern is exhausted.
kEndOfInput == "EOI"

\* The printable characters in the order of their codes, 33 to 126 (the
\* double quote, 34, and the grave accent, 96, by name).
Ascii ==
  <<
   "!", "QUOTE", "#", "$", "%", "&", "'", "(", ")", "*",
   "+", ",", "-", ".", "/", "0", "1", "2", "3", "4",
   "5", "6", "7", "8", "9", ":", ";", "<", "=", ">",
   "?", "@", "A", "B", "C", "D", "E", "F", "G", "H",
   "I", "J", "K", "L", "M", "N", "O", "P", "Q", "R",
   "S", "T", "U", "V", "W", "X", "Y", "Z", "[", "\\",
   "]", "^", "_", "GRAVE", "a", "b", "c", "d", "e", "f",
   "g", "h", "i", "j", "k", "l", "m", "n", "o", "p",
   "q", "r", "s", "t", "u", "v", "w", "x", "y", "z",
   "{", "|", "}", "~"
  >>

\* The integer value of a character (charT is char: ASCII), as compared by
\* SetItemRange and by the range constructor.
Ord(c) == 32 + (CHOOSE i \in DOMAIN Ascii : Ascii[i] = c)

(***************************************************************************)
(* Lexer                                                                   *)
(***************************************************************************)

\* Token(kind) and Token(kind, value).
Token(kind, value) == [kind |-> kind, value |-> value]

Select(kind) == Token(kind, "")

\* Lexer::IsSpecialChar.
IsSpecialChar(c) ==
  c \in {"?", "*", "+", "(", ")", "[", "]", "|", "!", "@", "{", "}", "\\"}

\* Lexer::Advance on the lexer state [pos, c]: at the last character c_
\* becomes kEndOfInput, otherwise c_ = str_[++pos_].  str_.length() - 1 is
\* unsigned, so for the empty pattern the test never succeeds and str_[1]
\* is read beyond the string's terminator: the character read is
\* undefined ("UB").
LexAdvance(str, lx) ==
  IF Len(str) = 0
    THEN [pos |-> lx.pos + 1, c |-> "UB"]
    ELSE IF lx.pos = Len(str) - 1
           THEN [pos |-> lx.pos, c |-> kEndOfInput]
           ELSE [pos |-> lx.pos + 1, c |-> str[lx.pos + 2]]

\* Lexer::Lexer: pos_ = 0 and c_ = str[0], which for the empty pattern is
\* the terminator '\0'.
LexerInit(str) ==
  [pos |-> 0, c |-> IF Len(str) = 0 THEN "NUL" ELSE str[1]]

\* One of the branches "X followed by '(' opens a typed group, otherwise
\* it is the plain token".
RECURSIVE ScannerLoop(_, _, _)
LexGroupOrPlain(str, lx, tokens, groupKind, plain) ==
  LET a == LexAdvance(str, lx) IN
  IF a.c = "("
    THEN ScannerLoop(str, LexAdvance(str, a), Append(tokens, Select(groupKind)))
    ELSE ScannerLoop(str, a, Append(tokens, plain))

\* Lexer::Scanner: the loop over c_.  The result is
\* [status, tokens]: "ok" with the token vector, "error" when glob::Error
\* is thrown, "undefined" when the scan reads outside the pattern.
ScannerLoop(str, lx, tokens) ==
  LET c == lx.c IN
  CASE c = "UB" -> [status |-> "undefined", tokens |-> tokens]
    [] c = "?" -> LexGroupOrPlain(str, lx, tokens, "QUESTLPAREN", Select("QUESTION"))
    [] c = "*" -> LexGroupOrPlain(str, lx, tokens, "STARLPAREN", Select("STAR"))
    [] c = "+" -> LexGroupOrPlain(str, lx, tokens, "PLUSLPAREN", Token("CHAR", "+"))
    [] c = "@" -> LexGroupOrPlain(str, lx, tokens, "ATLPAREN", Token("CHAR", "@"))
    [] c = "!" -> LexGroupOrPlain(str, lx, tokens, "NEGLPAREN", Token("CHAR", "!"))
    [] c = "-" -> ScannerLoop(str, LexAdvance(str, lx), Append(tokens, Select("SUB")))
    [] c = "|" -> ScannerLoop(str, LexAdvance(str, lx), Append(tokens, Select("UNION")))
    [] c = "(" -> ScannerLoop(str, LexAdvance(str, lx), Append(tokens, Select("LPAREN")))
    [] c = ")" -> ScannerLoop(str, LexAdvance(str, lx), Append(tokens, Select("RPAREN")))
    [] c = "[" ->
         LET a == LexAdvance(str, lx) IN
         IF a.c = "!"
           THEN ScannerLoop(str, LexAdvance(str, a), Append(tokens, Select("NEGLBRACKET")))
           ELSE ScannerLoop(str, a, Append(tokens, Select("LBRACKET")))
    [] c = "]" -> ScannerLoop(str, LexAdvance(str, lx), Append(tokens, Select("RBRACKET")))
    [] c = "{" -> ScannerLoop(str, LexAdvance(str, lx), Append(tokens, Select("LBRACE")))
    [] c = "}" -> ScannerLoop(str, LexAdvance(str, lx), Append(tokens, Select("RBRACE")))
    [] c = "\\" ->
         LET a == LexAdvance(str, lx) IN
         IF a.c = kEndOfInput
           THEN [status |-> "error", tokens |-> tokens]
           ELSE IF IsSpecialChar(a.c)
                  THEN ScannerLoop(str, LexAdvance(str, a), Append(tokens, Token("CHAR", a.c)))
                  ELSE ScannerLoop(str, a, tokens)
    [] OTHER ->
         IF c = kEndOfInput
           THEN [status |-> "ok", tokens |-> Append(tokens, Select("EOS"))]
           ELSE ScannerLoop(str, LexAdvance(str, lx), Append(tokens, Token("CHAR", c)))

Scanner(str) == ScannerLoop(str, LexerInit(str), <<>>)

(***************************************************************************)
(* AST nodes                                                               *)
(***************************************************************************)

CharNode(c) == [type |-> "CHAR", c |-> c]

RangeNode(start, end) == [type |-> "RANGE", start |-> start, end |-> end]

SetItemsNode(items) == [type |-> "SET_ITEMS", items |-> items]

PositiveSetNode(set) == [type |-> "POS_SET", set |-> set]

NegativeSetNode(set) == [type |-> "NEG_SET", set |-> set]

StarNode == [type |-> "STAR"]

AnyNode == [type |-> "ANY"]

GroupNode(group_type, glob) ==
  [type |-> "GROUP", group_type |-> group_type, glob |-> glob]

ConcatNode(basic_glob) == [type |-> "CONCAT_GLOB", basic_glob |-> basic_glob]

UnionNode(items) == [type |-> "UNION", items |-> items]

GlobNode(glob) == [type |-> "GLOB", glob |-> glob]

(***************************************************************************)
(* Parser.  Every Parser* operator takes the token vector and pos_ and     *)
(* returns [ok, node, pos]: ok = FALSE when glob::Error is thrown.         *)
(***************************************************************************)

Parsed(node, pos) == [ok |-> TRUE, node |-> node, pos |-> pos]

ParseError(pos) == [ok |-> FALSE, node |-> <<>>, pos |-> pos]

\* Parser::GetToken: tok_vec_.at(pos_).
GetToken(toks, pos) == toks[pos + 1]

\* Parser::PeekAhead.
PeekAhead(toks, pos) ==
  IF pos >= Len(toks) - 1 THEN toks[Len(toks)] ELSE toks[pos + 2]

\* Parser::NextToken: the token at pos_ and pos_ + 1, or the last token and
\* pos_ unchanged at the end of the vector.  (Where the source assigns the
\* result to a reference obtained from an earlier NextToken, it overwrites
\* a token already consumed, which is never read again.)
NextToken(toks, pos) ==
  IF pos >= Len(toks) - 1
    THEN [tk |-> toks[Len(toks)], pos |-> pos]
    ELSE [tk |-> toks[pos + 1], pos |-> pos + 1]

\* Parser::Advance.
Advance(toks, pos) == IF pos = Len(toks) - 1 THEN pos ELSE pos + 1

\* Parser::CloneNode: a deep structural copy.
RECURSIVE CloneNode(_)
RECURSIVE CloneAll(_)
CloneAll(nodes) ==
  IF nodes = <<>> THEN <<>>
  ELSE <<CloneNode(Head(nodes))>> \o CloneAll(Tail(nodes))

CloneNode(node) ==
  CASE node.type = "CHAR" -> CharNode(node.c)
    [] node.type = "STAR" -> StarNode
    [] node.type = "ANY" -> AnyNode
    [] node.type = "CONCAT_GLOB" -> ConcatNode(CloneAll(node.basic_glob))
    [] node.type = "UNION" -> UnionNode(CloneAll(node.items))
    [] node.type = "POS_SET" -> PositiveSetNode(CloneNode(node.set))
    [] node.type = "NEG_SET" -> NegativeSetNode(CloneNode(node.set))
    [] node.type = "SET_ITEMS" -> SetItemsNode(CloneAll(node.items))
    [] node.type = "RANGE" -> RangeNode(CloneNode(node.start), CloneNode(node.end))
    [] node.type = "GROUP" -> GroupNode(node.group_type, CloneNode(node.glob))

\* Parser::ParserChar.
ParserChar(toks, pos) ==
  LET nt == NextToken(toks, pos) IN
  IF nt.tk.kind # "CHAR" THEN ParseError(nt.pos)
  ELSE Parsed(CharNode(nt.tk.value), nt.pos)

\* Parser::ParserRange.
ParserRange(toks, pos) ==
  With([char_start \in {ParserChar(toks, pos)} |->
    IF ~char_start.ok THEN char_start
    ELSE LET nt == NextToken(toks, char_start.pos) IN
         IF nt.tk.kind # "SUB" THEN ParseError(nt.pos)
         ELSE With([char_end \in {ParserChar(toks, nt.pos)} |->
                IF ~char_end.ok THEN char_end
                ELSE Parsed(RangeNode(char_start.node, char_end.node),
                            char_end.pos)])])

\* Parser::ParserSetItem.
ParserSetItem(toks, pos) ==
  IF PeekAhead(toks, pos).kind = "SUB" THEN ParserRange(toks, pos)
  ELSE ParserChar(toks, pos)

\* Parser::ParserSetItems: do { item } while (GetToken() != RBRACKET);
\* Advance().
RECURSIVE ParserSetItemsLoop(_, _, _)
ParserSetItemsLoop(toks, pos, items) ==
  With([item \in {ParserSetItem(toks, pos)} |->
    IF ~item.ok THEN item
    ELSE IF GetToken(toks, item.pos).kind # "RBRACKET"
           THEN ParserSetItemsLoop(toks, item.pos, Append(items, item.node))
           ELSE Parsed(SetItemsNode(Append(items, item.node)),
                       Advance(toks, item.pos))])

ParserSetItems(toks, pos) == ParserSetItemsLoop(toks, pos, <<>>)

\* Parser::ParserSet.
ParserSet(toks, pos) ==
  LET nt == NextToken(toks, pos) IN
  IF nt.tk.kind \in {"LBRACKET", "NEGLBRACKET"}
    THEN With([s \in {ParserSetItems(toks, nt.pos)} |->
           IF ~s.ok THEN s
           ELSE IF nt.tk.kind = "LBRACKET"
                  THEN Parsed(PositiveSetNode(s.node), s.pos)
                  ELSE Parsed(NegativeSetNode(s.node), s.pos)])
    ELSE ParseError(nt.pos)

\* The token kinds that open a group and the group type of each
\* (the switch of Parser::ParserGroup).
GroupTypeOf(kind) ==
  CASE kind = "LPAREN" -> "BASIC"
    [] kind = "QUESTLPAREN" -> "ANY"
    [] kind = "STARLPAREN" -> "STAR"
    [] kind = "PLUSLPAREN" -> "PLUS"
    [] kind = "NEGLPAREN" -> "NEG"
    [] kind = "ATLPAREN" -> "AT"
    [] OTHER -> "NONE"

\* check_end of Parser::ParserConcat and of Parser::ParserBraceItem.
CheckEnd(toks, pos) ==
  LET tk == GetToken(toks, pos) IN
  \/ tk.kind \in {"EOS", "RPAREN", "UNION", "RBRACE"}
  \/ tk.kind = "CHAR" /\ tk.value = ","

\* The parts of every node of a vector of ConcatNodes, as a vector of
\* vectors (the suffix_variants of Parser::ParserConcat).
RECURSIVE PartsOfEach(_)
PartsOfEach(concats) ==
  IF concats = <<>> THEN <<>>
  ELSE <<CloneAll(Head(concats).basic_glob)>> \o PartsOfEach(Tail(concats))

\* new_variants of Parser::ParserConcat: every variant extended by the
\* parts of every alternative of a nested union, variant-major.
RECURSIVE ExtendByItems(_, _)
ExtendByItems(variant, union_items) ==
  IF union_items = <<>> THEN <<>>
  ELSE <<CloneAll(variant) \o CloneAll(Head(union_items).basic_glob)>>
         \o ExtendByItems(variant, Tail(union_items))

RECURSIVE NewVariants(_, _)
NewVariants(item_variants, union_items) ==
  IF item_variants = <<>> THEN <<>>
  ELSE ExtendByItems(Head(item_variants), union_items)
         \o NewVariants(Tail(item_variants), union_items)

\* "Regular part, add to all variants".
AddToAll(item_variants, part) ==
  [i \in DOMAIN item_variants |-> Append(item_variants[i], CloneNode(part))]

\* The loop over brace_item_parts that builds item_variants.
RECURSIVE ItemVariants(_, _)
ItemVariants(brace_item_parts, item_variants) ==
  IF brace_item_parts = <<>> THEN item_variants
  ELSE LET part == Head(brace_item_parts) IN
       ItemVariants(Tail(brace_item_parts),
                    IF part.type = "UNION"
                      THEN NewVariants(item_variants, part.items)
                      ELSE AddToAll(item_variants, part))

\* One ConcatNode per suffix variant: head parts followed by the variant.
RECURSIVE WithSuffixes(_, _)
WithSuffixes(head_parts, suffix_variants) ==
  IF suffix_variants = <<>> THEN <<>>
  ELSE <<ConcatNode(CloneAll(head_parts) \o CloneAll(Head(suffix_variants)))>>
         \o WithSuffixes(head_parts, Tail(suffix_variants))

\* "Create expanded items from variants".
RECURSIVE ExpandVariants(_, _, _)
ExpandVariants(prefix_parts, item_variants, suffix_variants) ==
  IF item_variants = <<>> THEN <<>>
  ELSE WithSuffixes(CloneAll(prefix_parts) \o Head(item_variants), suffix_variants)
         \o ExpandVariants(prefix_parts, Tail(item_variants), suffix_variants)

HasUnion(parts) == \E i \in DOMAIN parts : parts[i].type = "UNION"

\* The body of the loop "for (auto& brace_item : brace_items)" of
\* Parser::ParserConcat: the expanded items one brace item contributes.
ExpandBraceItem(prefix_parts, brace_item, suffix_variants) ==
  LET brace_item_parts == brace_item.basic_glob IN
  IF HasUnion(brace_item_parts)
    THEN ExpandVariants(prefix_parts,
                        ItemVariants(brace_item_parts, << <<>> >>),
                        suffix_variants)
    ELSE WithSuffixes(CloneAll(prefix_parts) \o CloneAll(brace_item_parts),
                      suffix_variants)

RECURSIVE ExpandBraceItems(_, _, _)
ExpandBraceItems(prefix_parts, brace_items, suffix_variants) ==
  IF brace_items = <<>> THEN <<>>
  ELSE ExpandBraceItem(prefix_parts, Head(brace_items), suffix_variants)
         \o ExpandBraceItems(prefix_parts, Tail(brace_items), suffix_variants)

RECURSIVE ParserBasicGlob(_, _)
RECURSIVE ParserGroup(_, _)
RECURSIVE ParserBraceExpansion(_, _)
RECURSIVE ParserBraceExpansionLoop(_, _, _)
RECURSIVE ParserBraceItemLoop(_, _, _)
RECURSIVE ParserConcatLoop(_, _, _)
RECURSIVE ParserConcat(_, _)
RECURSIVE ParserUnionLoop(_, _, _)

\* Parser::ParserBasicGlob.
ParserBasicGlob(toks, pos) ==
  LET kind == GetToken(toks, pos).kind IN
  CASE kind = "QUESTION" -> Parsed(AnyNode, Advance(toks, pos))
    [] kind = "STAR" -> Parsed(StarNode, Advance(toks, pos))
    [] kind = "SUB" -> Parsed(CharNode("-"), Advance(toks, pos))
    [] kind = "CHAR" -> ParserChar(toks, pos)
    [] kind \in {"LBRACKET", "NEGLBRACKET"} -> ParserSet(toks, pos)
    [] GroupTypeOf(kind) # "NONE" -> ParserGroup(toks, pos)
    [] OTHER -> ParseError(pos)

\* Parser::ParserUnion.
ParserUnionLoop(toks, pos, items) ==
  IF GetToken(toks, pos).kind = "UNION"
    THEN With([c \in {ParserConcat(toks, Advance(toks, pos))} |->
           IF ~c.ok THEN c
           ELSE ParserUnionLoop(toks, c.pos, Append(items, c.node))])
    ELSE Parsed(UnionNode(items), pos)

ParserUnion(toks, pos) ==
  With([c \in {ParserConcat(toks, pos)} |->
    IF ~c.ok THEN c ELSE ParserUnionLoop(toks, c.pos, <<c.node>>)])

\* ParserGroup without the test for the closing ')': with it an unclosed
\* group would be accepted.
ParserGroupUnclosed(toks, pos) ==
  LET nt == NextToken(toks, pos)
      type == GroupTypeOf(nt.tk.kind)
  IN IF type = "NONE" THEN ParseError(nt.pos)
     ELSE With([group_glob \in {ParserUnion(toks, nt.pos)} |->
            IF ~group_glob.ok THEN group_glob
            ELSE Parsed(GroupNode(type, group_glob.node),
                        NextToken(toks, group_glob.pos).pos)])

\* Parser::ParserGroup.
ParserGroup(toks, pos) ==
  LET nt == NextToken(toks, pos)
      type == GroupTypeOf(nt.tk.kind)
  IN IF type = "NONE" THEN ParseError(nt.pos)
     ELSE With([group_glob \in {ParserUnion(toks, nt.pos)} |->
            IF ~group_glob.ok THEN group_glob
            ELSE LET close == NextToken(toks, group_glob.pos) IN
                 IF close.tk.kind # "RPAREN" THEN ParseError(close.pos)
                 ELSE Parsed(GroupNode(type, group_glob.node), close.pos)])

\* Parser::ParserBraceItem: the loop "while (!check_end())".
ParserBraceItemLoop(toks, pos, parts) ==
  IF CheckEnd(toks, pos) THEN Parsed(ConcatNode(parts), pos)
  ELSE IF GetToken(toks, pos).kind = "LBRACE"
         THEN With([nested \in {ParserBraceExpansion(toks, pos)} |->
                IF ~nested.ok THEN nested
                ELSE ParserBraceItemLoop(toks, nested.pos,
                       IF Len(nested.node) = 1
                         THEN parts \o CloneAll(nested.node[1].basic_glob)
                         ELSE Append(parts, UnionNode(nested.node)))])
         ELSE With([g \in {ParserBasicGlob(toks, pos)} |->
                IF ~g.ok THEN g
                ELSE ParserBraceItemLoop(toks, g.pos, Append(parts, g.node))])

ParserBraceItem(toks, pos) == ParserBraceItemLoop(toks, pos, <<>>)

\* Parser::ParserBraceExpansion: the loop "Parse remaining items separated
\* by commas" and the closing brace.  node is the vector of items.
ParserBraceExpansionLoop(toks, pos, items) ==
  LET current_tk == GetToken(toks, pos) IN
  IF current_tk.kind = "RBRACE" THEN Parsed(items, pos)
  ELSE IF current_tk.kind # "CHAR" \/ current_tk.value # ","
         THEN ParseError(pos)
         ELSE LET p == Advance(toks, pos) IN
              IF GetToken(toks, p).kind = "RBRACE"
                THEN Parsed(Append(items, ConcatNode(<<>>)), p)
                ELSE With([item \in {ParserBraceItem(toks, p)} |->
                       IF ~item.ok THEN item
                       ELSE ParserBraceExpansionLoop(toks, item.pos,
                                                     Append(items, item.node))])

ParserBraceExpansion(toks, pos) ==
  LET nt == NextToken(toks, pos) IN
  IF nt.tk.kind # "LBRACE" THEN ParseError(nt.pos)
  ELSE IF GetToken(toks, nt.pos).kind = "RBRACE"
         THEN Parsed(<<ConcatNode(<<>>)>>, NextToken(toks, nt.pos).pos)
         ELSE With([first \in {ParserBraceItem(toks, nt.pos)} |->
                IF ~first.ok THEN first
                ELSE With([rest \in {ParserBraceExpansionLoop(toks, first.pos,
                                                              <<first.node>>)} |->
                       IF ~rest.ok THEN rest
                       ELSE LET close == NextToken(toks, rest.pos) IN
                            IF close.tk.kind # "RBRACE" THEN ParseError(close.pos)
                            ELSE Parsed(rest.node, close.pos)])])

\* Parser::ParserConcat, first pass: collect parts up to the end of the
\* concatenation or the first '{'.  node is [parts, brace].
ParserConcatLoop(toks, pos, parts) ==
  IF CheckEnd(toks, pos) THEN Parsed([parts |-> parts, brace |-> FALSE], pos)
  ELSE IF GetToken(toks, pos).kind = "LBRACE"
         THEN Parsed([parts |-> parts, brace |-> TRUE], pos)
         ELSE With([g \in {ParserBasicGlob(toks, pos)} |->
                IF ~g.ok THEN g
                ELSE ParserConcatLoop(toks, g.pos, Append(parts, g.node))])

\* Parser::ParserConcat: a ConcatNode, or with a brace expression the
\* UnionNode of prefix + brace item + suffix for every brace item and
\* every suffix variant.
ParserConcat(toks, pos) ==
  With([first \in {ParserConcatLoop(toks, pos, <<>>)} |->
    IF ~first.ok THEN first
    ELSE IF ~first.node.brace
           THEN Parsed(ConcatNode(first.node.parts), first.pos)
    ELSE With([brace_items \in {ParserBraceExpansion(toks, first.pos)} |->
      IF ~brace_items.ok THEN brace_items
      ELSE With([suffix_node \in {ParserConcat(toks, brace_items.pos)} |->
        IF ~suffix_node.ok THEN suffix_node
        ELSE Parsed(UnionNode(ExpandBraceItems(
                                first.node.parts,
                                brace_items.node,
                                PartsOfEach(IF suffix_node.node.type = "UNION"
                                              THEN suffix_node.node.items
                                              ELSE <<suffix_node.node>>))),
                    suffix_node.pos)])])])

\* Parser::ParserGlob.
ParserGlob(toks, pos) ==
  With([glob \in {ParserConcat(toks, pos)} |->
    IF ~glob.ok THEN glob
    ELSE IF GetToken(toks, glob.pos).kind # "EOS" THEN ParseError(glob.pos)
         ELSE Parsed(GlobNode(glob.node), glob.pos)])

\* Parser::GenAst.
GenAst(toks) == ParserGlob(toks, 0)

(***************************************************************************)
(* Automata and states.  An automaton is [states_, match_state_,           *)
(* fail_state_]; a state is one record shape for every StateType, with the *)
(* fields a type does not have left empty.  State indices are the          *)
(* source's 0-based positions in states_.                                  *)
(***************************************************************************)

\* State::State with the fields of every derived class.
StateRec(type) ==
  [type |-> type, c_ |-> "", items_ |-> <<>>, neg_ |-> FALSE,
   type_ |-> "", automatas_ |-> <<>>, match_one_ |-> FALSE,
   next_states_ |-> <<>>, matched_str_ |-> <<>>]

StateFail == StateRec("FAIL")

StateMatch == StateRec("MATCH")

StateChar(c) == [StateRec("CHAR") EXCEPT !.c_ = c]

StateAny == StateRec("QUESTION")

StateStar == StateRec("MULT")

StateSet(items, neg) == [StateRec("SET") EXCEPT !.items_ = items, !.neg_ = neg]

StateGroup(type, automatas) ==
  [StateRec("GROUP") EXCEPT !.type_ = type, !.automatas_ = automatas]

SetItemChar(c) == [item |-> "CHAR", c_ |-> c, start_ |-> "", end_ |-> ""]

\* SetItemRange::SetItemRange orders its two ends.
SetItemRange(start, end) ==
  [item |-> "RANGE", c_ |-> "",
   start_ |-> IF Ord(start) < Ord(end) THEN start ELSE end,
   end_ |-> IF Ord(start) < Ord(end) THEN end ELSE start]

\* What the reference State::states_ of an automaton's states resolves to:
\* the automaton itself or, once the automaton has been moved, the
\* automaton moved from, of which fail_state_ is kept here and whose
\* states_ is empty.  read_outside records that a state has read that
\* empty states_.
OwnAutomata == [moved_from |-> FALSE, fail_state_ |-> 0, read_outside |-> FALSE]

\* Automata::Automata.
EmptyAutomata ==
  [states_ |-> <<>>, match_state_ |-> 0, fail_state_ |-> 0, back_ |-> OwnAutomata]

\* Automata::GetState.
GetState(automata, pos) == automata.states_[pos + 1]

\* GetAutomata().FailState() as a state of the automaton reads it.
FailState(automata) ==
  IF automata.back_.moved_from THEN automata.back_.fail_state_
  ELSE automata.fail_state_

\* GetAutomata().GetState(pos) as a state of the automaton reads it is a
\* read of an empty states_ once the automaton has been moved.
Dangling(automata) == automata.back_.moved_from

ReadOutside(automata) == [automata EXCEPT !.back_.read_outside = TRUE]

\* Automata::NewState: the automaton with the state appended; the new
\* state's position is the former GetNumStates().
AutomataNewState(automata, state) ==
  [automata EXCEPT !.states_ = Append(@, state)]

GetNumStates(automata) == Len(automata.states_)

\* State::AddNextState on the state at pos.
AddNextState(automata, pos, state_pos) ==
  [automata EXCEPT !.states_[pos + 1].next_states_ = Append(@, state_pos)]

SetMatchState(automata, state_pos) == [automata EXCEPT !.match_state_ = state_pos]

SetFailState(automata, state_pos) == [automata EXCEPT !.fail_state_ = state_pos]

(***************************************************************************)
(* AstConsumer.  A consumer is [automata, preview_state_, current_state_,  *)
(* status]; status becomes "undefined" when the compiler indexes states_   *)
(* with preview_state_ = -1 or casts a node to a class it is not.          *)
(***************************************************************************)

\* AstConsumer::AstConsumer working on an automaton.
Consumer(automata) ==
  [automata |-> automata, preview_state_ |-> -1, current_state_ |-> 0,
   status |-> "ok"]

\* AstConsumer::NewState.
ConsumerNewState(cs, state) ==
  LET current == GetNumStates(cs.automata)
      added == AutomataNewState(cs.automata, state)
  IN [cs EXCEPT !.automata = IF cs.preview_state_ >= 0
                               THEN AddNextState(added, cs.preview_state_, current)
                               ELSE added,
                !.current_state_ = current,
                !.preview_state_ = current]

\* AstConsumer::ProcessSetItem and ProcessSetItems.
ProcessSetItem(node) ==
  IF node.type = "CHAR" THEN SetItemChar(node.c)
  ELSE SetItemRange(node.start.c, node.end.c)

ProcessSetItems(node) ==
  [i \in DOMAIN node.items |-> ProcessSetItem(node.items[i])]

\* The tail shared by AstConsumer::ExecUnion and the union branch of
\* GenAutomata: append Match, link the last state of the concatenation to
\* it, append Fail.  With an empty concatenation preview_state_ is still
\* -1 and GetState(-1) is an access outside states_.
FinishAutomata(cs) ==
  LET match_state == GetNumStates(cs.automata)
      with_match == AutomataNewState(cs.automata, StateMatch)
      linked == IF cs.preview_state_ >= 0
                  THEN AddNextState(with_match, cs.preview_state_, match_state)
                  ELSE with_match
      fail_state == GetNumStates(linked)
  IN [cs EXCEPT
        !.automata = SetFailState(
                       AutomataNewState(SetMatchState(linked, match_state), StateFail),
                       fail_state),
        !.status = IF cs.preview_state_ < 0 THEN "undefined" ELSE cs.status]

RECURSIVE ExecConcat(_, _)
RECURSIVE ExecConcatLoop(_, _)
RECURSIVE ExecUnion(_, _)

\* AstConsumer::ExecGroup.
ExecGroup(node, cs) ==
  With([u \in {ExecUnion(node.glob.items, <<>>)} |->
    LET made == ConsumerNewState(cs, StateGroup(node.group_type, u.automatas))
    IN [made EXCEPT
          !.automata = AddNextState(made.automata, made.current_state_,
                                    made.current_state_),
          !.status = IF u.status = "ok" THEN cs.status ELSE u.status]])

\* AstConsumer::ExecStar.
ExecStar(cs) ==
  LET made == ConsumerNewState(cs, StateStar) IN
  [made EXCEPT !.automata = AddNextState(made.automata, made.current_state_,
                                         made.current_state_)]

\* AstConsumer::ExecBasicGlob (with ExecChar, ExecAny, ExecPositiveSet and
\* ExecNegativeSet): a node of any other type emits nothing.
ExecBasicGlob(node, cs) ==
  CASE node.type = "CHAR" -> ConsumerNewState(cs, StateChar(node.c))
    [] node.type = "ANY" -> ConsumerNewState(cs, StateAny)
    [] node.type = "STAR" -> ExecStar(cs)
    [] node.type = "POS_SET" ->
         ConsumerNewState(cs, StateSet(ProcessSetItems(node.set), FALSE))
    [] node.type = "NEG_SET" ->
         ConsumerNewState(cs, StateSet(ProcessSetItems(node.set), TRUE))
    [] node.type = "GROUP" -> ExecGroup(node, cs)
    [] OTHER -> cs

ExecConcatLoop(basic_globs, cs) ==
  IF basic_globs = <<>> THEN cs
  ELSE ExecConcatLoop(Tail(basic_globs), ExecBasicGlob(Head(basic_globs), cs))

\* AstConsumer::ExecConcat.  The node is static_cast to ConcatNode: a node
\* of another class (a UnionNode that ParserConcat returned for a brace
\* expression inside a group) is read as if it were one, which is
\* undefined.
ExecConcat(node, cs) ==
  IF node.type = "CONCAT_GLOB" THEN ExecConcatLoop(node.basic_glob, cs)
  ELSE [cs EXCEPT !.status = "undefined"]

\* AstConsumer::ExecUnion, and the loop of GenAutomata's union branch: one
\* automaton per item.  The result is [automatas, status].
ExecUnion(items, done) ==
  IF items = <<>> THEN [automatas |-> done, status |-> "ok"]
  ELSE With([cs \in {FinishAutomata(ExecConcat(Head(items),
                                                Consumer(EmptyAutomata)))} |->
         With([rest \in {ExecUnion(Tail(items), Append(done, cs.automata))} |->
           IF cs.status = "ok" THEN rest
           ELSE [automatas |-> rest.automatas, status |-> cs.status]])])

\* AstConsumer::GenAutomata.  The result is [automata, status].
GenAutomata(root_node) ==
  LET concat_node == root_node.glob IN
  IF concat_node.type = "UNION"
    THEN With([u \in {ExecUnion(concat_node.items, <<>>)} |->
           With([group \in {ConsumerNewState(Consumer(EmptyAutomata),
                                             StateGroup("BASIC", u.automatas))} |->
             LET union_state == group.current_state_
                 dummy_state == GetNumStates(group.automata)
                 with_dummy == AddNextState(
                                 AutomataNewState(group.automata, StateFail),
                                 union_state, dummy_state)
                 match_state == GetNumStates(with_dummy)
                 with_match == SetMatchState(
                                 AddNextState(
                                   AutomataNewState(with_dummy, StateMatch),
                                   union_state, match_state),
                                 match_state)
                 fail_state == GetNumStates(with_match)
             IN [automata |-> SetFailState(
                                AutomataNewState(with_match, StateFail),
                                fail_state),
                 status |-> u.status]])])
    ELSE With([cs \in {FinishAutomata(ExecConcat(concat_node,
                                                  Consumer(EmptyAutomata)))} |->
           [automata |-> cs.automata, status |-> cs.status]])

(***************************************************************************)
(* The interpreter.  Check, Next and Exec mutate the states they run       *)
(* (matched_str_, match_one_, and the same fields inside the groups'       *)
(* automata), so each returns the automaton as it leaves it.  hang is TRUE *)
(* when the loop of ExecAux has reached a configuration it never leaves.   *)
(***************************************************************************)

\* str.substr(pos) and str.substr(pos, n).
SubStr(str, pos) == SubSeq(str, pos + 1, Len(str))

SubStrN(str, pos, n) == SubSeq(str, pos + 1, pos + n)

\* State::SetMatchedStr on the state at pos.
SetMatchedStr(automata, pos, str) ==
  [automata EXCEPT !.states_[pos + 1].matched_str_ = str]

\* SetItemChar::Check and SetItemRange::Check.
SetItemCheck(item, c) ==
  IF item.item = "CHAR" THEN c = item.c_
  ELSE Ord(c) >= Ord(item.start_) /\ Ord(c) <= Ord(item.end_)

\* StateSet::SetCheck.
SetCheck(state, str, pos) ==
  \E i \in DOMAIN state.items_ : SetItemCheck(state.items_[i], str[pos + 1])

\* StateSet::Check without the test of neg_: with it a negated set would
\* accept what it lists.
StateSetCheckNotNegated(state, str, pos) == SetCheck(state, str, pos)

\* StateSet::Check.
StateSetCheck(state, str, pos) ==
  IF state.neg_ THEN ~SetCheck(state, str, pos) ELSE SetCheck(state, str, pos)

\* StateGroup::ResetState without the assignment: with it match_one_
\* would outlive the call that set it.
ResetStateKeepsFlag(state) == state

\* State::ResetState and StateGroup::ResetState.
ResetState(state) ==
  IF state.type = "GROUP" THEN [state EXCEPT !.match_one_ = FALSE] ELSE state

\* Automata::Exec without its call of ResetStates.
ResetStatesSkipped(automata) == automata

\* Automata::ResetStates.
ResetStates(automata) ==
  [automata EXCEPT !.states_ = [i \in DOMAIN @ |-> ResetState(@[i])]]

Step(state_pos, str_pos, automata, hang) ==
  [state_pos |-> state_pos, str_pos |-> str_pos, automata |-> automata,
   hang |-> hang]

RECURSIVE Exec(_, _, _)
RECURSIVE ExecAuxLoop(_, _, _, _)
RECURSIVE BasicCheckLoop(_, _, _, _, _, _)
RECURSIVE StateNext(_, _, _, _)

\* StateGroup::BasicCheck: the loop over automatas_ from index k on.  The
\* result is [r, pos, automatas, hang].
BasicCheckLoop(automatas, k, str_part, comp_end, pos, str_pos) ==
  IF k > Len(automatas)
    THEN [r |-> FALSE, pos |-> pos + str_pos, automatas |-> automatas, hang |-> FALSE]
    ELSE With([e \in {Exec(automatas[k], str_part, comp_end)} |->
           LET after == [automatas EXCEPT ![k] = e.automata] IN
           IF e.hang
             THEN [r |-> FALSE, pos |-> pos, automatas |-> after, hang |-> TRUE]
             ELSE IF e.r
                    THEN [r |-> TRUE, pos |-> pos + e.pos, automatas |-> after,
                          hang |-> FALSE]
                    ELSE BasicCheckLoop(after, k + 1, str_part, comp_end, pos,
                                        e.pos)])

\* StateGroup::BasicCheck on the state at self: every automaton is run on
\* the rest of the input, requiring all of it only when pos is 0.  The
\* result is [r, pos, automata, hang].
BasicCheck(automata, self, str, pos) ==
  With([b \in {BasicCheckLoop(GetState(automata, self).automatas_, 1,
                               SubStr(str, pos), pos = 0, pos, 0)} |->
    [r |-> b.r, pos |-> b.pos, hang |-> b.hang,
     automata |-> [automata EXCEPT !.states_[self + 1].automatas_ = b.automatas]]])

\* State::Check of the state at self, for every StateType.  The result is
\* [r, automata, hang].
Check(automata, self, str, pos) ==
  LET state == GetState(automata, self)
      plain(r) == [r |-> r, automata |-> automata, hang |-> FALSE]
  IN CASE state.type = "FAIL" -> plain(FALSE)
       [] state.type = "MATCH" -> plain(TRUE)
       [] state.type = "CHAR" -> plain(state.c_ = str[pos + 1])
       [] state.type = "QUESTION" -> plain(TRUE)
       [] state.type = "MULT" -> plain(TRUE)
       [] state.type = "SET" -> plain(StateSetCheck(state, str, pos))
       [] state.type = "GROUP" ->
            With([b \in {BasicCheck(automata, self, str, pos)} |->
              [r |-> IF state.type_ = "NEG" THEN ~b.r ELSE b.r,
               automata |-> b.automata, hang |-> b.hang]])

\* StateChar::Next.
StateCharNext(automata, self, str, pos) ==
  LET state == GetState(automata, self) IN
  IF state.c_ = str[pos + 1]
    THEN Step(state.next_states_[1], pos + 1,
              SetMatchedStr(automata, self, <<state.c_>>), FALSE)
    ELSE Step(FailState(automata), pos + 1, automata, FALSE)

\* StateAny::Next without the step over the character: with it '?' would
\* consume nothing.
StateAnyNextNoAdvance(automata, self, str, pos) ==
  Step(GetState(automata, self).next_states_[1], pos,
       SetMatchedStr(automata, self, <<str[pos + 1]>>), FALSE)

\* StateAny::Next.
StateAnyNext(automata, self, str, pos) ==
  Step(GetState(automata, self).next_states_[1], pos + 1,
       SetMatchedStr(automata, self, <<str[pos + 1]>>), FALSE)

\* StateSet::Next.
StateSetNext(automata, self, str, pos) ==
  LET state == GetState(automata, self) IN
  IF StateSetCheck(state, str, pos)
    THEN Step(state.next_states_[1], pos + 1,
              SetMatchedStr(automata, self, <<str[pos + 1]>>), FALSE)
    ELSE Step(FailState(automata), pos + 1, automata, FALSE)

\* StateStar::Next.
StateStarNext(automata, self, str, pos) ==
  LET state == GetState(automata, self)
      next == state.next_states_[2]
  IN IF Dangling(automata) THEN Step(self, pos, ReadOutside(automata), TRUE)
     ELSE IF GetState(automata, next).type = "MATCH"
       THEN Step(next, Len(str), SetMatchedStr(automata, self, SubStr(str, pos)), FALSE)
       ELSE With([res \in {Check(automata, next, str, pos)} |->
              IF res.hang THEN Step(self, pos, res.automata, TRUE)
              ELSE IF res.r THEN Step(next, pos, res.automata, FALSE)
              ELSE Step(state.next_states_[1], pos + 1,
                        SetMatchedStr(res.automata, self,
                                      Append(state.matched_str_, str[pos + 1])),
                        FALSE)])

\* "this->SetMatchedStr(this->MatchedStr() + str.substr(pos, new_pos - pos))"
\* of the StateGroup::Next* methods.
GroupMatched(automata, self, str, pos, new_pos) ==
  SetMatchedStr(automata, self,
                GetState(automata, self).matched_str_ \o SubStrN(str, pos, new_pos - pos))

\* StateGroup::NextNeg.
NextNeg(automata, self, str, pos) ==
  With([b \in {BasicCheck(automata, self, str, pos)} |->
    IF b.hang THEN Step(self, pos, b.automata, TRUE)
    ELSE IF b.r
           THEN Step(FailState(automata), b.pos,
                     GroupMatched(b.automata, self, str, pos, b.pos), FALSE)
           ELSE Step(GetState(automata, self).next_states_[2], pos, b.automata,
                     FALSE)])

\* StateGroup::NextBasic.
NextBasic(automata, self, str, pos) ==
  With([b \in {BasicCheck(automata, self, str, pos)} |->
    IF b.hang THEN Step(self, pos, b.automata, TRUE)
    ELSE IF b.r
           THEN Step(GetState(automata, self).next_states_[2], b.pos,
                     GroupMatched(b.automata, self, str, pos, b.pos), FALSE)
           ELSE Step(FailState(automata), b.pos, b.automata, FALSE)])

\* StateGroup::NextAny.
NextAny(automata, self, str, pos) ==
  With([b \in {BasicCheck(automata, self, str, pos)} |->
    IF b.hang THEN Step(self, pos, b.automata, TRUE)
    ELSE IF b.r
           THEN Step(GetState(automata, self).next_states_[2], b.pos,
                     GroupMatched(b.automata, self, str, pos, b.pos), FALSE)
           ELSE Step(GetState(automata, self).next_states_[2], pos, b.automata,
                     FALSE)])

\* StateGroup::NextStar.
NextStar(automata, self, str, pos) ==
  With([b \in {BasicCheck(automata, self, str, pos)} |->
    LET next == GetState(automata, self).next_states_ IN
    IF b.hang THEN Step(self, pos, b.automata, TRUE)
    ELSE IF b.r
           THEN LET matched == GroupMatched(b.automata, self, str, pos, b.pos) IN
                IF Dangling(automata)
                  THEN Step(self, pos, ReadOutside(b.automata), TRUE)
                ELSE IF GetState(automata, next[2]).type = "MATCH" /\ b.pos = Len(str)
                  THEN Step(next[2], b.pos, matched, FALSE)
                  ELSE Step(next[1], b.pos, matched, FALSE)
           ELSE Step(next[2], pos, b.automata, FALSE)])

\* StateGroup::NextPlus.
NextPlus(automata, self, str, pos) ==
  With([b \in {BasicCheck(automata, self, str, pos)} |->
    LET next == GetState(automata, self).next_states_ IN
    IF b.hang THEN Step(self, pos, b.automata, TRUE)
    ELSE IF Dangling(automata) THEN Step(self, pos, ReadOutside(b.automata), TRUE)
    ELSE IF b.r
           THEN LET matched ==
                      GroupMatched([b.automata EXCEPT
                                      !.states_[self + 1].match_one_ = TRUE],
                                   self, str, pos, b.pos)
                IN IF GetState(automata, next[2]).type = "MATCH" /\ b.pos = Len(str)
                     THEN Step(next[2], b.pos, matched, FALSE)
                     ELSE Step(next[1], b.pos, matched, FALSE)
           ELSE With([res \in {Check(b.automata, next[2], str, pos)} |->
                  IF res.hang THEN Step(self, pos, res.automata, TRUE)
                  ELSE IF GetState(automata, self).match_one_
                         THEN Step(next[2], pos, res.automata, FALSE)
                         ELSE Step(FailState(automata), b.pos, res.automata,
                                   FALSE)])])

\* State::Next of the state at self: [state_pos, str_pos, automata, hang].
StateNext(automata, self, str, pos) ==
  LET state == GetState(automata, self) IN
  CASE state.type = "CHAR" -> StateCharNext(automata, self, str, pos)
    [] state.type = "QUESTION" -> StateAnyNext(automata, self, str, pos)
    [] state.type = "MULT" -> StateStarNext(automata, self, str, pos)
    [] state.type = "SET" -> StateSetNext(automata, self, str, pos)
    [] state.type = "GROUP" ->
         CASE state.type_ \in {"BASIC", "AT"} -> NextBasic(automata, self, str, pos)
           [] state.type_ = "ANY" -> NextAny(automata, self, str, pos)
           [] state.type_ = "STAR" -> NextStar(automata, self, str, pos)
           [] state.type_ = "PLUS" -> NextPlus(automata, self, str, pos)
           [] state.type_ = "NEG" -> NextNeg(automata, self, str, pos)
    [] OTHER -> Step(0, pos + 1, automata, FALSE)

\* The while loop of Automata::ExecAux.  A step that changes neither the
\* position nor the automaton repeats for ever.
ExecAuxLoop(automata, str, state_pos, str_pos) ==
  IF state_pos # automata.fail_state_ /\ state_pos # automata.match_state_
       /\ str_pos < Len(str)
    THEN With([n \in {StateNext(automata, state_pos, str, str_pos)} |->
           IF n.hang \/ (n.state_pos = state_pos /\ n.str_pos = str_pos
                          /\ n.automata = automata)
             THEN Step(state_pos, str_pos, n.automata, TRUE)
             ELSE ExecAuxLoop(n.automata, str, n.state_pos, n.str_pos)])
    ELSE Step(state_pos, str_pos, automata, FALSE)

\* ExecAux without its check after the loop: with it a trailing star would
\* stay where the loop left it.
TrailingStarStays(automata, str, state_pos, str_pos) == state_pos

\* The check of Automata::ExecAux after its loop: with the input consumed,
\* a star whose successor is the match state moves to it.
TrailingStar(automata, str, state_pos, str_pos) ==
  IF str_pos = Len(str) /\ state_pos # automata.fail_state_
       /\ state_pos # automata.match_state_
       /\ GetState(automata, state_pos).type = "MULT"
       /\ Len(GetState(automata, state_pos).next_states_) > 1
       /\ GetState(automata, GetState(automata, state_pos).next_states_[2]).type = "MATCH"
    THEN GetState(automata, state_pos).next_states_[2]
    ELSE state_pos

\* ExecAux without the comp_end test: with it a match could leave input
\* unconsumed.
ExecAuxUnanchored(automata, str, comp_end) ==
  With([run \in {ExecAuxLoop(automata, str, 0, 0)} |->
    [r |-> /\ ~run.hang
           /\ TrailingStar(run.automata, str, run.state_pos, run.str_pos)
                = automata.match_state_,
     pos |-> run.str_pos, automata |-> run.automata, hang |-> run.hang]])

\* Automata::ExecAux: [r, pos, automata, hang].
ExecAux(automata, str, comp_end) ==
  With([run \in {ExecAuxLoop(automata, str, 0, 0)} |->
    [r |-> /\ ~run.hang
           /\ TrailingStar(run.automata, str, run.state_pos, run.str_pos)
                = automata.match_state_
           /\ (comp_end => run.str_pos = Len(str)),
     pos |-> run.str_pos, automata |-> run.automata, hang |-> run.hang]])

\* Automata::Exec: ExecAux, then ResetStates.
Exec(automata, str, comp_end) ==
  With([e \in {ExecAux(automata, str, comp_end)} |->
    [e EXCEPT !.automata = IF e.hang THEN e.automata ELSE ResetStates(e.automata)]])

(***************************************************************************)
(* ExtendedGlob                                                            *)
(***************************************************************************)

\* The tokens of a scan that ran beyond the pattern, when the first byte
\* it reads there is kEndOfInput: the scan stops at once with what it had.
\* Any other byte adds tokens, a glob::Error or a fault.
ScannedBeyond(l) == Append(l.tokens, Select("EOS"))

\* The try block of ExtendedGlob::ExtendedGlob: Lexer, Parser::GenAst and
\* AstConsumer::GenAutomata.  The result is [status, automata]: "ok",
\* "error" when glob::Error is thrown (automata_ is then untouched), or
\* "undefined".
Compile(pattern) ==
  With([l \in {Scanner(pattern)} |->
    IF l.status = "error" THEN [status |-> l.status, automata |-> EmptyAutomata]
    ELSE With([ast \in {GenAst(IF l.status = "ok" THEN l.tokens
                               ELSE ScannedBeyond(l))} |->
           IF ~ast.ok THEN [status |-> IF l.status = "ok" THEN "error" ELSE l.status,
                            automata |-> EmptyAutomata]
           ELSE With([g \in {GenAutomata(ast.node)} |->
                  IF l.status = "ok" THEN g
                  ELSE [g EXCEPT !.status = l.status]])])])

\* The failure path with the match state where the fail state should be:
\* with it the fallback automaton would accept the empty input.
AlwaysFailAccepting ==
  SetMatchState(
    SetFailState(AutomataNewState(AutomataNewState(EmptyAutomata, StateFail),
                                  StateMatch),
                 1),
    0)

\* The failure path of ExtendedGlob::ExtendedGlob: an automaton whose
\* state 0 is the fail state.
AlwaysFail ==
  LET with_fail == SetFailState(AutomataNewState(EmptyAutomata, StateFail), 0)
      match == GetNumStates(with_fail)
  IN SetMatchState(AutomataNewState(with_fail, StateMatch), match)

(***************************************************************************)
(* Bounds and the sets the inputs are drawn from                           *)
(***************************************************************************)

\* The longest input string of Spec.
MaxStrLen == 3

\* The longest generated pattern of Spec.
MaxPatLen == 2

\* The number of glob_match calls made on one glob object.
MaxCalls == 1

\* The number of glob_match calls with a MatchResults made on one glob
\* object.
MaxCaptureCalls == 2

\* All sequences over alphabet of length n, and of length at most n.
RECURSIVE SeqsOfLen(_, _)
SeqsOfLen(alphabet, n) ==
  IF n = 0 THEN {<<>>}
  ELSE {Append(q, c) : q \in SeqsOfLen(alphabet, n - 1), c \in alphabet}

SeqsUpTo(alphabet, n) == UNION {SeqsOfLen(alphabet, k) : k \in 0..n}

\* Ordinary characters: no meaning in the pattern syntax.
Ordinary == {"a", "b"}

\* The malformed patterns of the error tests.
MalformedPatterns ==
  { <<"[", "a", "b", "c">>,
    <<"(", "a", "b", "c">>,
    <<"*", "(", "a", "b", "c">>,
    <<"\\">>,
    <<"[", "a", "-", "]">>,
    <<"[", "-", "a", "]">>,
    <<"*", ".", "{", "h", ",", "h", "p", "p">> }

\* Spec: every non-empty pattern of literals, '?' and '*' up to MaxPatLen,
\* and the malformed patterns; inputs over the ordinary characters.
Patterns ==
  (SeqsUpTo(Ordinary \cup {"?", "*"}, MaxPatLen) \ {<<>>}) \cup MalformedPatterns

Inputs == SeqsUpTo(Ordinary, MaxStrLen)

(***************************************************************************)
(* The program: one glob object (BasicGlob over ExtendedGlob) built from a *)
(* pattern, and glob_match calls on it.                                    *)
(***************************************************************************)

VARIABLES
  noexcept_enabled,  \* GLOBSTAR_NOEXCEPT_ENABLED of the build
  obj,               \* "none", "live", "raised" (the constructor threw
                     \* glob::Error), "crashed" or "hung"
  pattern,           \* the pattern given to the constructor
  automata_,         \* ExtendedGlob::automata_
  calls,             \* glob_match calls made on the object
  str,               \* the input of the last glob_match
  r,                 \* what the last glob_match returned
  res,               \* MatchResults::results_ of the caller's MatchResults
  handle,            \* what glob_create of the C wrapper returned: "unset"
                     \* before it returns, then "NULL" or "object"
  threads            \* the calls of Automata::Exec that threads make on
                     \* the object, each with its locals of ExecAux

vars ==
  <<noexcept_enabled, obj, pattern, automata_, calls, str, r, res, handle,
    threads>>

\* The threads that call Automata::Exec on one object.
Threads == {1, 2}

\* A thread that has not called Exec.
IdleThread ==
  [pc |-> "idle", str |-> <<>>, state_pos |-> 0, str_pos |-> 0, r |-> FALSE,
   overlapped |-> FALSE]

Init ==
  /\ noexcept_enabled \in BOOLEAN
  /\ obj = "none"
  /\ pattern = <<>>
  /\ automata_ = EmptyAutomata
  /\ calls = 0
  /\ str = <<>>
  /\ r = FALSE
  /\ res = <<>>
  /\ handle = "unset"
  /\ threads = [t \in Threads |-> IdleThread]

\* glob::glob g(p): BasicGlob::BasicGlob and ExtendedGlob::ExtendedGlob.
\* A glob::Error propagates when the build lets exceptions through, and
\* otherwise is caught and leaves the always-failing automaton.  Where the
\* compilation is undefined, the build crashes, goes on with the write
\* outside states_ lost, or meets a glob::Error in what it reads.
ConstructGlob(p) ==
  /\ pattern' = p
  /\ calls' = 0
  /\ str' = <<>>
  /\ r' = FALSE
  /\ \E c \in {Compile(p)} :
     \/ /\ c.status = "ok"
        /\ obj' = "live"
        /\ automata_' = c.automata
     \/ /\ c.status = "error"
        /\ obj' = IF noexcept_enabled THEN "live" ELSE "raised"
        /\ automata_' = IF noexcept_enabled THEN AlwaysFail ELSE EmptyAutomata
     \/ /\ c.status = "undefined"
        /\ \/ obj' = "crashed" /\ automata_' = EmptyAutomata
           \/ obj' = "live" /\ automata_' = c.automata
           \/ /\ obj' = IF noexcept_enabled THEN "live" ELSE "raised"
              /\ automata_' = IF noexcept_enabled THEN AlwaysFail ELSE EmptyAutomata

\* glob::glob g(p) in a C++ caller.
Construct(p) ==
  /\ obj \in {"none", "raised"}
  /\ ConstructGlob(p)
  /\ UNCHANGED <<noexcept_enabled, res, handle, threads>>

\* What becomes of the object in a call of Automata::Exec: the call
\* returns, never returns, or ends the program at a read outside states_.
ExecOutcome(e) ==
  IF ~e.hang THEN "live"
  ELSE IF e.automata.back_.read_outside THEN "crashed" ELSE "hung"

\* glob_match(s, g): BasicGlob::Exec, ExtendedGlob::Exec, Automata::Exec.
GlobMatch(s) ==
  /\ obj = "live"
  /\ calls < MaxCalls
  /\ \E e \in {Exec(automata_, s, TRUE)} :
     /\ obj' = ExecOutcome(e)
     /\ automata_' = e.automata
     /\ r' = e.r
  /\ str' = s
  /\ calls' = calls + 1
  /\ UNCHANGED <<noexcept_enabled, pattern, res, handle, threads>>

\* Automata::GetMatchedStrings: MatchedStr() of every star, any, group and
\* set state of states_, in the order of the states.
RECURSIVE MatchedStrings(_)
MatchedStrings(states) ==
  IF states = <<>> THEN <<>>
  ELSE (IF Head(states).type \in {"MULT", "QUESTION", "GROUP", "SET"}
          THEN <<Head(states).matched_str_>>
          ELSE <<>>)
       \o MatchedStrings(Tail(states))

GetMatchedStrings(automata) == MatchedStrings(automata.states_)

\* glob_match(s, res, g): BasicGlob::Exec, then res.SetResults with the
\* matched strings the automaton holds, whatever Exec returned.
GlobMatchResults(s) ==
  /\ obj = "live"
  /\ calls < MaxCaptureCalls
  /\ \E e \in {Exec(automata_, s, TRUE)} :
     /\ obj' = ExecOutcome(e)
     /\ automata_' = e.automata
     /\ r' = e.r
     /\ res' = IF e.hang THEN res ELSE GetMatchedStrings(e.automata)
  /\ str' = s
  /\ calls' = calls + 1
  /\ UNCHANGED <<noexcept_enabled, pattern, handle, threads>>

Next ==
  \/ \E p \in Patterns : Construct(p)
  \/ \E s \in Inputs : GlobMatch(s)

Spec == Init /\ [][Next]_vars

(***************************************************************************)
(* Brace patterns.  SpecBrace runs the same program on patterns            *)
(* P{A,B}S, with an empty B among them, and on nested brace patterns.      *)
(***************************************************************************)

\* The prefixes and suffixes, and the alternatives, of the brace patterns.
BraceParts == {<<>>, <<"a">>, <<"*">>}

BraceAlts == {<<"a">>, <<"b">>, <<"*">>}

\* P{A,}S.
TrailingComma(P, A, S) == P \o <<"{">> \o A \o <<",", "}">> \o S

\* P{A,B}S.
TwoAlternatives(P, A, B, S) ==
  P \o <<"{">> \o A \o <<",">> \o B \o <<"}">> \o S

NestedPatterns ==
  { <<"{", "a", "{", "b", "{", "c", ",", "d", "}", ",", "e", "}", "}">>,
    <<"{", "a", ",", "b", "{", "a", ",", "b", "}", "}">>,
    <<"{", "a", "{", "a", ",", "b", "}", "b", "}">> }

BracePatterns ==
  {TwoAlternatives(P, A, B, S) :
     P \in BraceParts, A \in BraceAlts, B \in BraceAlts, S \in BraceParts}
  \cup {TrailingComma(P, A, S) : P \in BraceParts, A \in BraceAlts, S \in BraceParts}
  \cup NestedPatterns

BraceInputs ==
  SeqsUpTo(Ordinary, MaxStrLen)
  \cup {<<"a", "b", "c">>, <<"a", "b", "d">>, <<"a", "e">>}

NextBrace ==
  \/ \E p \in BracePatterns : Construct(p)
  \/ \E s \in BraceInputs : GlobMatch(s)

SpecBrace == Init /\ [][NextBrace]_vars

(***************************************************************************)
(* Escapes.  SpecEscape runs the program on the patterns \x and [a\xz]     *)
(* for every character x of the pattern syntax.                            *)
(***************************************************************************)

SyntaxChars ==
  {"?", "*", "+", "@", "!", "(", ")", "[", "]", "{", "}", "|", ",", "-", "\\"}

\* \x.
Escaped(x) == <<"\\", x>>

\* [a\xz].
EscapedInSet(x) == <<"[", "a", "\\", x, "z", "]">>

EscapePatterns ==
  {Escaped(x) : x \in SyntaxChars} \cup {EscapedInSet(x) : x \in SyntaxChars}

EscapeChars == SyntaxChars \cup {"a", "b", "z"}

EscapeInputs ==
  {<<>>} \cup {<<c>> : c \in EscapeChars} \cup {<<c, c>> : c \in EscapeChars}

NextEscape ==
  \/ \E p \in EscapePatterns : Construct(p)
  \/ \E s \in EscapeInputs : GlobMatch(s)

SpecEscape == Init /\ [][NextEscape]_vars

(***************************************************************************)
(* Groups.  SpecGroup runs the program on patterns P K(A|B) S for every    *)
(* group kind K, and on the group patterns of the tests.                   *)
(***************************************************************************)

\* The alternatives of the generated groups.
GroupAlts == {<<"a">>, <<"a", "b">>, <<"b">>}

\* The group kinds: (..), *(..), ?(..), +(..) and @(..).
GroupKinds == {<<>>, <<"*">>, <<"?">>, <<"+">>, <<"@">>}

GroupPres == {<<>>, <<"x">>}

GroupSufs == {<<>>, <<"c">>}

\* K(A|B).
GroupOf(K, A, B) == K \o <<"(">> \o A \o <<"|">> \o B \o <<")">>

\* Group patterns of the tests and of the documentation, each with the
\* inputs it is run on.
GroupExamples ==
  { <<<<"a", "*", "(", "?", "(", "b", ")", ")", "c">>,
      <<"a", "c">>>>,
    <<<<"a", "+", "(", "*", "(", "b", ")", ")", "c">>,
      <<"a", "c">>>>,
    <<<<"*", "(", "t", "e", "s", "t", "|", "f", "i", "l", "e", ")">>,
      <<"t", "e", "s", "t", "f", "i", "l", "e">>>>,
    <<<<"*", "(", "[", "A", "-", "Z", "]", ")", "+", "(", "[", "a", "-", "z", "0", "-", "9", "]", ")", ".", "t", "x", "t">>,
      <<"F", "I", "L", "E", "1", ".", "t", "x", "t">>>>,
    <<<<"*", "(", "[", "A", "-", "Z", "]", ")", "+", "(", "[", "a", "-", "z", "0", "-", "9", "]", ")", ".", "t", "x", "t">>,
      <<"f", "i", "l", "e", ".", "t", "x", "t">>>>,
    <<<<"*", "(", "[", "a", "-", "z", "]", ")", "+", "(", "[", "0", "-", "9", "]", ")", ".", "(", "t", "x", "t", "|", "p", "d", "f", ")">>,
      <<"f", "i", "l", "e", "1", "2", "3", ".", "t", "x", "t">>>>,
    <<<<"*", "(", "t", "e", "s", "t", ")">>,
      <<>>>>,
    <<<<"*", "(", "(", "a", "|", "b", ")", "|", "(", "c", "|", "d", ")", ")">>,
      <<>>>>,
    <<<<"a", "?", "(", "b", ")">>,
      <<"a">>>>,
    <<<<"a", "b", "*", "(", "c", ")">>,
      <<"a", "b">>>> }

GroupPatterns ==
  {P \o GroupOf(K, A, B) \o S :
     P \in GroupPres, K \in GroupKinds, A \in GroupAlts, B \in GroupAlts,
     S \in GroupSufs}
  \cup {e[1] : e \in GroupExamples}

GroupInputs ==
  {P \o m \o S : P \in GroupPres, m \in SeqsUpTo(Ordinary, 2), S \in GroupSufs}
  \cup {e[2] : e \in GroupExamples}

NextGroup ==
  \/ \E p \in GroupPatterns : Construct(p)
  \/ \E s \in GroupInputs : GlobMatch(s)

SpecGroup == Init /\ [][NextGroup]_vars

(***************************************************************************)
(* Path patterns.  SpecGlobstar runs the program on paths of up to three   *)
(* segments, a whole segment "**" among them, and on patterns with a run   *)
(* of stars inside a segment.                                              *)
(***************************************************************************)

\* The number of segments of a generated path pattern or input path.
MaxSegments == 3

\* segments[1] / segments[2] / ...
RECURSIVE JoinPath(_)
JoinPath(segments) ==
  IF Len(segments) = 1 THEN segments[1]
  ELSE segments[1] \o <<"/">> \o JoinPath(Tail(segments))

PatternSegments == {<<"a">>, <<"b">>, <<"*">>, <<"*", "*">>}

InputSegments == {<<"a">>, <<"b">>, <<"x">>}

\* Patterns with two or three stars in a row inside a segment.
StarRunPatterns ==
  { <<"*", "*", "*">>,
    <<"a", "*", "*">>,
    <<"a", "*", "*", "*">>,
    <<"*", "*", "a">>,
    <<"a", "*", "*", "b">>,
    <<"t", "e", "s", "t", "*", "*", "f", "i", "l", "e">> }

StarRunInputs ==
  { <<>>,
    <<"a">>,
    <<"a", "b">>,
    <<"a", "b", "c">>,
    <<"a", "x", "b">>,
    <<"b", "a">>,
    <<"t", "e", "s", "t", "f", "i", "l", "e">> }

GlobstarPatterns ==
  {JoinPath(q) : q \in SeqsUpTo(PatternSegments, MaxSegments) \ {<<>>}}
  \cup StarRunPatterns

GlobstarInputs ==
  {JoinPath(q) : q \in SeqsUpTo(InputSegments, MaxSegments) \ {<<>>}}
  \cup {<<"a", "/", "x", "/", "y", "/", "b">>}
  \cup StarRunInputs

NextGlobstar ==
  \/ \E p \in GlobstarPatterns : Construct(p)
  \/ \E s \in GlobstarInputs : GlobMatch(s)

SpecGlobstar == Init /\ [][NextGlobstar]_vars

(***************************************************************************)
(* Captures.  SpecCapture makes up to MaxCaptureCalls calls of glob_match   *)
(* with a MatchResults on one glob object.                                 *)
(***************************************************************************)

CapturePatterns ==
  (SeqsUpTo({"a", "?", "*"}, 2) \ {<<>>})
  \cup { <<"[", "a", "b", "]">>,
         <<"*", "(", "a", ")">>,
         <<"a", "*", "(", "b", ")">>,
         <<"*", "[", "a", "b", "]">> }

CaptureInputs == SeqsUpTo(Ordinary, 2)

NextCapture ==
  \/ \E p \in CapturePatterns : Construct(p)
  \/ \E s \in CaptureInputs : GlobMatchResults(s)

SpecCapture == Init /\ [][NextCapture]_vars

(***************************************************************************)
(* Sets.  SpecSet runs the program on sets, sets negated with '!' and sets *)
(* that start with '^', on every one-character input and on longer ones.   *)
(***************************************************************************)

\* The text between the brackets of the generated sets.
SetBodies == {<<"a", "-", "z">>, <<"0", "-", "9">>, <<"a">>}

\* [X], [!X] and [^X].
PositiveSet(X) == <<"[">> \o X \o <<"]">>

BangSet(X) == <<"[", "!">> \o X \o <<"]">>

CaretSet(X) == <<"[", "^">> \o X \o <<"]">>

\* The patterns of the tests SetNegative and SetNegativeRange with inputs
\* they are to match and inputs they are to reject.
CaretMatches ==
  { <<<<"[", "^", "a", "-", "z", "]", ".", "t", "x", "t">>, <<"A", ".", "t", "x", "t">>>>,
    <<<<"[", "^", "a", "-", "z", "]", ".", "t", "x", "t">>, <<"1", ".", "t", "x", "t">>>>,
    <<<<"*", "[", "^", "0", "-", "9", "]", ".", "t", "x", "t">>, <<"f", "i", "l", "e", "a", ".", "t", "x", "t">>>> }

CaretRejects ==
  { <<<<"[", "^", "a", "-", "z", "]", ".", "t", "x", "t">>, <<"a", ".", "t", "x", "t">>>>,
    <<<<"[", "^", "a", "-", "z", "]", ".", "t", "x", "t">>, <<"z", ".", "t", "x", "t">>>>,
    <<<<"*", "[", "^", "0", "-", "9", "]", ".", "t", "x", "t">>, <<"f", "i", "l", "e", "1", ".", "t", "x", "t">>>> }

SetPatterns ==
  {PositiveSet(X) : X \in SetBodies}
  \cup {BangSet(X) : X \in SetBodies}
  \cup {CaretSet(X) : X \in SetBodies}
  \cup {e[1] : e \in CaretMatches \cup CaretRejects}

\* Every printable character.
Printable == {Ascii[i] : i \in DOMAIN Ascii}

SetInputs ==
  {<<>>}
  \cup {<<c>> : c \in Printable}
  \cup UNION {SeqsOfLen({"a", "A"}, n) : n \in 2..MaxStrLen}
  \cup {e[2] : e \in CaretMatches \cup CaretRejects}

NextSet ==
  \/ \E p \in SetPatterns : Construct(p)
  \/ \E s \in SetInputs : GlobMatch(s)

SpecSet == Init /\ [][NextSet]_vars

(***************************************************************************)
(* Brace ranges.  SpecRange runs the program on the patterns {x..y}.       *)
(***************************************************************************)

RangeEnds == {"a", "b", "c"}

\* {x..y}.
BraceRange(x, y) == <<"{", x, ".", ".", y, "}">>

RangePatterns == {BraceRange(x, y) : x \in RangeEnds, y \in RangeEnds}

RangeInputs ==
  {<<>>}
  \cup {<<c>> : c \in RangeEnds \cup {"d", "."}}
  \cup {<<x, ".", ".", y>> : x \in RangeEnds, y \in RangeEnds}

NextRange ==
  \/ \E p \in RangePatterns : Construct(p)
  \/ \E s \in RangeInputs : GlobMatch(s)

SpecRange == Init /\ [][NextRange]_vars

(***************************************************************************)
(* Operators out of context.  SpecOperator runs the program on L,R and     *)
(* L|R outside every group and brace expression, and on (L,R).             *)
(***************************************************************************)

OperatorSides == {<<>>, <<"a">>, <<"b">>}

\* L,R and L|R.
Separated(L, op, R) == L \o <<op>> \o R

\* (L,R).
CommaInGroup(L, R) == <<"(">> \o L \o <<",">> \o R \o <<")">>

OperatorPatterns ==
  {Separated(L, op, R) : L \in OperatorSides, op \in {",", "|"}, R \in OperatorSides}
  \cup {CommaInGroup(L, R) : L \in OperatorSides, R \in OperatorSides}

OperatorInputs ==
  {Separated(L, op, R) : L \in OperatorSides, op \in {",", "|"}, R \in OperatorSides}
  \cup OperatorSides

NextOperator ==
  \/ \E p \in OperatorPatterns : Construct(p)
  \/ \E s \in OperatorInputs : GlobMatch(s)

SpecOperator == Init /\ [][NextOperator]_vars

(***************************************************************************)
(* The empty pattern.  SpecEmpty runs the program on the empty pattern     *)
(* and, beside it, on the one-character patterns a, ? and *.               *)
(***************************************************************************)

EmptyPatterns == {<<>>, <<"a">>, <<"?">>, <<"*">>}

EmptyInputs == SeqsUpTo({"a", "NUL"}, MaxStrLen)

NextEmpty ==
  \/ \E p \in EmptyPatterns : Construct(p)
  \/ \E s \in EmptyInputs : GlobMatch(s)

SpecEmpty == Init /\ [][NextEmpty]_vars

(***************************************************************************)
(* The C wrapper of examples/cglob.cpp.  SpecCWrapper is a C caller:       *)
(* glob_create, glob_match and glob_free on one handle.                    *)
(***************************************************************************)

\* glob_create(NULL, flags): the null test returns NULL.
GlobCreateNull ==
  /\ handle = "unset"
  /\ obj = "none"
  /\ handle' = "NULL"
  /\ UNCHANGED <<noexcept_enabled, obj, pattern, automata_, calls, str, r, res,
                 threads>>

\* glob_create(p, flags) with p not NULL: new (std::nothrow) glob::glob(p).
\* The allocation fails and NULL is returned, or the constructor runs and
\* the pointer to the object is returned whenever the constructor returns.
\* A glob::Error that the constructor lets through leaves the function as
\* an exception and no handle is returned.
GlobCreate(p) ==
  /\ handle = "unset"
  /\ obj = "none"
  /\ \/ /\ handle' = "NULL"
        /\ UNCHANGED <<obj, pattern, automata_, calls, str, r>>
     \/ /\ ConstructGlob(p)
        /\ handle' = IF obj' = "live" THEN "object" ELSE "unset"
  /\ UNCHANGED <<noexcept_enabled, res, threads>>

\* glob_match(g, str) of the wrapper with a handle that glob_create
\* returned: glob::glob_match on the object.  With g = NULL it returns -1
\* and touches nothing.
CGlobMatch(s) ==
  /\ handle = "object"
  /\ GlobMatch(s)

\* glob_free(g): delete, which does nothing for NULL.
GlobFree ==
  /\ handle \in {"NULL", "object"}
  /\ obj \in {"none", "live"}
  /\ handle' = "unset"
  /\ obj' = "none"
  /\ pattern' = <<>>
  /\ automata_' = EmptyAutomata
  /\ calls' = 0
  /\ str' = <<>>
  /\ r' = FALSE
  /\ UNCHANGED <<noexcept_enabled, res, threads>>

CWrapperPatterns ==
  (SeqsUpTo(Ordinary \cup {"*"}, MaxPatLen) \ {<<>>}) \cup MalformedPatterns

CWrapperInputs == SeqsUpTo(Ordinary, MaxPatLen)

NextCWrapper ==
  \/ GlobCreateNull
  \/ \E p \in CWrapperPatterns : GlobCreate(p)
  \/ \E s \in CWrapperInputs : CGlobMatch(s)
  \/ GlobFree

SpecCWrapper == Init /\ [][NextCWrapper]_vars

(***************************************************************************)
(* Negated groups.  SpecNeg runs the program on patterns !(X)S, X a        *)
(* one-character glob and S a literal suffix; !([a-z]).txt is among them.  *)
(***************************************************************************)

NegBodies == {<<"a">>, <<"[", "a", "-", "z", "]">>, <<"[", "a", "1", "]">>}

NegSufs == {<<"b">>, <<".">>, <<".", "t", "x", "t">>}

NegGroup(X, S) == <<"!", "(">> \o X \o <<")">> \o S

NegPatterns == {NegGroup(X, S) : X \in NegBodies, S \in NegSufs}

NegChars == {"a", "A", "1"}

NegInputs ==
  NegSufs
  \cup {<<c>> \o S : c \in NegChars, S \in NegSufs}
  \cup {<<c, c>> \o S : c \in NegChars, S \in NegSufs}

NextNegGroup ==
  \/ \E p \in NegPatterns : Construct(p)
  \/ \E s \in NegInputs : GlobMatch(s)

SpecNeg == Init /\ [][NextNegGroup]_vars

(***************************************************************************)
(* One-or-more groups.  SpecPlus runs the program on patterns P+(B)S and   *)
(* makes two calls on the same object.                                     *)
(***************************************************************************)

PlusPres == {<<>>, <<"a">>}

PlusBodies == {<<"b">>, <<"b", "|", "c">>, <<"+", "(", "b", ")">>}

PlusSufs == {<<>>, <<"c">>}

PlusGroup(P, B, S) == P \o <<"+", "(">> \o B \o <<")">> \o S

PlusPatterns == {PlusGroup(P, B, S) : P \in PlusPres, B \in PlusBodies, S \in PlusSufs}

PlusInputs ==
  { <<>>, <<"a">>, <<"b">>, <<"c">>, <<"a", "b">>, <<"a", "c">>, <<"b", "c">>,
    <<"b", "b">>, <<"a", "b", "c">>, <<"a", "b", "b">>, <<"b", "b", "c">>,
    <<"a", "c", "c">> }

NextPlusGroup ==
  \/ \E p \in PlusPatterns : Construct(p)
  \/ \E s \in PlusInputs : GlobMatchResults(s)

SpecPlus == Init /\ [][NextPlusGroup]_vars

(***************************************************************************)
(* Two threads on one object.  SpecConcurrent lets each thread of Threads  *)
(* make one call of Automata::Exec on the same automata_; a step is one    *)
(* iteration of the loop of ExecAux, and ResetStates is a step of its own. *)
(***************************************************************************)

\* The thread is inside Automata::Exec.
Running(thread) == thread.pc \in {"loop", "reset"}

\* Thread t enters Automata::Exec(s, true) through glob_match; its call
\* overlaps those of the threads that are inside Exec.
ExecBegin(t, s) ==
  /\ obj = "live"
  /\ threads[t].pc = "idle"
  /\ threads' =
       [u \in Threads |->
          IF u = t
            THEN [pc |-> "loop", str |-> s, state_pos |-> 0, str_pos |-> 0,
                  r |-> FALSE,
                  overlapped |-> \E v \in Threads \ {t} : Running(threads[v])]
            ELSE IF Running(threads[u])
                   THEN [threads[u] EXCEPT !.overlapped = TRUE]
                   ELSE threads[u]]
  /\ UNCHANGED <<noexcept_enabled, obj, pattern, automata_, calls, str, r, res,
                 handle>>

\* One turn of the loop of Automata::ExecAux in thread t, or the end of
\* the loop with the tests that follow it.  states_[state_pos]->Next reads
\* and writes match_one_ and matched_str_ of the shared states without
\* synchronisation: a write made while another thread is inside Exec is
\* either seen by that thread or is a fault of the program.
ExecStep(t) ==
  /\ obj = "live"
  /\ threads[t].pc = "loop"
  /\ LET th == threads[t] IN
     IF th.state_pos # automata_.fail_state_
          /\ th.state_pos # automata_.match_state_
          /\ th.str_pos < Len(th.str)
       THEN \E n \in {StateNext(automata_, th.state_pos, th.str, th.str_pos)} :
              \/ /\ n.hang \/ (n.state_pos = th.state_pos
                                /\ n.str_pos = th.str_pos
                                /\ n.automata = automata_)
                 /\ obj' = ExecOutcome([hang |-> TRUE, automata |-> n.automata])
                 /\ automata_' = n.automata
                 /\ threads' = [threads EXCEPT ![t].pc = "hung"]
              \/ /\ ~n.hang
                 /\ ~(n.state_pos = th.state_pos /\ n.str_pos = th.str_pos
                       /\ n.automata = automata_)
                 /\ obj' = obj
                 /\ automata_' = n.automata
                 /\ threads' = [threads EXCEPT ![t].state_pos = n.state_pos,
                                               ![t].str_pos = n.str_pos]
              \/ /\ n.automata # automata_
                 /\ \E u \in Threads \ {t} : Running(threads[u])
                 /\ obj' = "crashed"
                 /\ automata_' = automata_
                 /\ threads' = [threads EXCEPT ![t].pc = "crashed"]
       ELSE /\ obj' = obj
            /\ automata_' = automata_
            /\ threads' =
                 [threads EXCEPT
                    ![t].pc = "reset",
                    ![t].r = /\ TrailingStar(automata_, th.str, th.state_pos,
                                             th.str_pos) = automata_.match_state_
                             /\ th.str_pos = Len(th.str)]
  /\ UNCHANGED <<noexcept_enabled, pattern, calls, str, r, res, handle>>

\* The call of ResetStates that ends Automata::Exec in thread t, and the
\* return of the result.
ExecReset(t) ==
  /\ obj = "live"
  /\ threads[t].pc = "reset"
  /\ automata_' = ResetStates(automata_)
  /\ threads' = [threads EXCEPT ![t].pc = "done"]
  /\ UNCHANGED <<noexcept_enabled, obj, pattern, calls, str, r, res, handle>>

ConcurrentPatterns ==
  { <<"a", "+", "(", "b", ")", "c">>,
    <<"+", "(", "b", ")", "c">>,
    <<"a", "+", "(", "b", "|", "c", ")">>,
    <<"a", "*", "c">> }

ConcurrentInputs ==
  { <<"a", "b", "c">>, <<"a", "c">>, <<"a", "b">>, <<"b", "c">>, <<"c">> }

NextConcurrent ==
  \/ \E p \in ConcurrentPatterns : Construct(p)
  \/ \E t \in Threads, s \in ConcurrentInputs : ExecBegin(t, s)
  \/ \E t \in Threads : ExecStep(t)
  \/ \E t \in Threads : ExecReset(t)

SpecConcurrent == Init /\ [][NextConcurrent]_vars

(***************************************************************************)
(* Braces inside groups.  SpecGroupBrace runs the program on groups whose  *)
(* body holds a brace expression, and on the same groups without one.      *)
(***************************************************************************)

GroupBraceOpeners == {<<"(">>, <<"*", "(">>, <<"@", "(">>}

GroupBraceBodies ==
  { <<"x", "{", "a", ",", "b", "}">>,
    <<"{", "a", ",", "b", "}">>,
    <<"a", "|", "{", "a", ",", "b", "}">>,
    <<"x", "a">>,
    <<"a", "|", "b">> }

GroupBracePatterns ==
  {P \o open \o body \o <<")">> :
     P \in {<<>>, <<"x">>}, open \in GroupBraceOpeners, body \in GroupBraceBodies}

GroupBraceInputs == SeqsUpTo({"a", "x"}, 2)

NextGroupBrace ==
  \/ \E p \in GroupBracePatterns : Construct(p)
  \/ \E s \in GroupBraceInputs : GlobMatch(s)

SpecGroupBrace == Init /\ [][NextGroupBrace]_vars

(***************************************************************************)
(* Empty concatenations.  SpecEmptyConcat runs the program on patterns     *)
(* with an empty alternative or an empty body, on the empty pattern, and   *)
(* on their counterparts with nothing empty.                               *)
(***************************************************************************)

EmptyConcatPatterns ==
  { <<>>,
    <<"(", ")">>,
    <<"x", "(", ")">>,
    <<"(", "a", "|", ")">>,
    <<"(", "|", "a", ")">>,
    <<"*", "(", "a", "|", ")">>,
    <<"{", ",", "a", "}">>,
    <<"{", "a", ",", "}">>,
    <<"(", "a", ")">>,
    <<"(", "a", "|", "x", ")">>,
    <<"{", "a", ",", "x", "}">>,
    <<"x", "*", "(", "a", ")">> }

EmptyConcatInputs == SeqsUpTo({"a", "x"}, 2)

NextEmptyConcat ==
  \/ \E p \in EmptyConcatPatterns : Construct(p)
  \/ \E s \in EmptyConcatInputs : GlobMatch(s)

SpecEmptyConcat == Init /\ [][NextEmptyConcat]_vars

(***************************************************************************)
(* Moved objects.  SpecMove builds a glob object, moves it with the move   *)
(* constructor or the move assignment, and calls glob_match on the new     *)
(* owner.  The states keep their reference to the Automata they were       *)
(* created in, which after the move is the emptied automaton of the old    *)
(* owner.                                                                  *)
(***************************************************************************)

\* glob::glob g2(std::move(g)): BasicGlob, ExtendedGlob and Automata move
\* constructors.  states_ goes to the new owner and fail_state_ of the old
\* one is exchanged for 0.
MoveConstruct ==
  /\ obj = "live"
  /\ calls = 0
  /\ ~automata_.back_.moved_from
  /\ automata_' = [automata_ EXCEPT
                     !.back_ = [moved_from |-> TRUE, fail_state_ |-> 0,
                                read_outside |-> FALSE]]
  /\ UNCHANGED <<noexcept_enabled, obj, pattern, calls, str, r, res, handle,
                 threads>>

\* g2 = std::move(g): the move assignments.  states_ goes to the new owner
\* and fail_state_ of the old one is left as it was.
MoveAssign ==
  /\ obj = "live"
  /\ calls = 0
  /\ ~automata_.back_.moved_from
  /\ automata_' = [automata_ EXCEPT
                     !.back_ = [moved_from |-> TRUE,
                                fail_state_ |-> automata_.fail_state_,
                                read_outside |-> FALSE]]
  /\ UNCHANGED <<noexcept_enabled, obj, pattern, calls, str, r, res, handle,
                 threads>>

MovePatterns ==
  (SeqsUpTo({"a", "b", "?", "*"}, MaxPatLen) \ {<<>>})
  \cup { <<"[", "a", "b", "]">>, <<"(", "a", "|", "b", ")">>,
         <<"a", "+", "(", "b", ")">>, <<"*", "(", "a", ")", "b">> }

MoveInputs == SeqsUpTo(Ordinary, MaxStrLen)

NextMove ==
  \/ \E p \in MovePatterns : Construct(p)
  \/ MoveConstruct
  \/ MoveAssign
  \/ \E s \in MoveInputs : GlobMatch(s)

SpecMove == Init /\ [][NextMove]_vars

(***************************************************************************)
(* Properties                                                              *)
(***************************************************************************)

\* A glob_match call has returned on the object built from pattern.
Matched == obj = "live" /\ calls > 0

\* What a pattern of literals and '?' matches: the strings of its length
\* that agree with it at every literal.
IsLitAny(q) == \A i \in DOMAIN q : q[i] \in Ordinary \cup {"?"}

LitAnyMatches(q, u) ==
  Len(u) = Len(q) /\ \A i \in DOMAIN q : q[i] = "?" \/ q[i] = u[i]

\* pat is p*s with p and s of literals and '?', and input is u m v with u
\* matched by p and v matched by s.
StarSplits(pat, input) ==
  \E k \in DOMAIN pat :
    LET p == SubSeq(pat, 1, k - 1)
        s == SubSeq(pat, k + 1, Len(pat))
    IN /\ pat[k] = "*"
       /\ IsLitAny(p)
       /\ IsLitAny(s)
       /\ Len(input) >= Len(p) + Len(s)
       /\ LitAnyMatches(p, SubSeq(input, 1, Len(p)))
       /\ LitAnyMatches(s, SubSeq(input, Len(input) - Len(s) + 1, Len(input)))

\* C1: '*' matches any run of zero or more characters: whenever the
\* pattern is p*s, with p and s built from literals and '?', and the input
\* is u m v with u matched by p and v matched by s, glob_match returns
\* true, whatever m is.
C1_StarMatchesAnyRun == (Matched /\ StarSplits(pattern, str)) => r

\* C2: the pattern "*" matches every input, the empty string included.
C2_StarMatchesEverything == (Matched /\ pattern = <<"*">>) => r

C2_StarOnEmptyInput ==
  Matched /\ pattern = <<"*">> /\ str = <<>> /\ r

\* C3: the pattern "?" matches an input if and only if its length is
\* exactly 1.
C3_AnyMatchesOneCharacter ==
  (Matched /\ pattern = <<"?">>) => (r <=> Len(str) = 1)

C3_AnyOnOneCharacter ==
  Matched /\ pattern = <<"?">> /\ Len(str) = 1 /\ r

\* A pattern of ordinary characters only.
IsLiteral(q) == \A i \in DOMAIN q : q[i] \in Ordinary

\* C4: matching is anchored at both ends: a non-empty pattern of ordinary
\* characters matches an input if and only if the input equals the
\* pattern.
C4_LiteralMatchesItselfOnly ==
  (Matched /\ pattern # <<>> /\ IsLiteral(pattern)) => (r <=> str = pattern)

C4_ProperPrefixRejected ==
  /\ Matched
  /\ pattern = <<"a", "b">>
  /\ str = <<"a">>
  /\ ~r

(***************************************************************************)
(* Brace expansion of the pattern text: the patterns obtained by choosing  *)
(* one alternative of every brace expression.                              *)
(***************************************************************************)

HasBrace(p) == \E i \in DOMAIN p : p[i] = "{"

\* The position of the '}' closing a '{', searched from position j at
\* nesting depth depth.
RECURSIVE ClosingBrace(_, _, _)
ClosingBrace(p, j, depth) ==
  CASE j > Len(p) -> 0
    [] p[j] = "{" -> ClosingBrace(p, j + 1, depth + 1)
    [] p[j] = "}" /\ depth = 0 -> j
    [] p[j] = "}" /\ depth > 0 -> ClosingBrace(p, j + 1, depth - 1)
    [] OTHER -> ClosingBrace(p, j + 1, depth)

\* The alternatives of the text between a '{' and its '}': the pieces
\* between the commas outside nested braces.
RECURSIVE Alternatives(_, _, _, _)
Alternatives(b, j, depth, current) ==
  CASE j > Len(b) -> {current}
    [] b[j] = "," /\ depth = 0 ->
         {current} \cup Alternatives(b, j + 1, 0, <<>>)
    [] b[j] = "{" -> Alternatives(b, j + 1, depth + 1, Append(current, b[j]))
    [] b[j] = "}" -> Alternatives(b, j + 1, depth - 1, Append(current, b[j]))
    [] OTHER -> Alternatives(b, j + 1, depth, Append(current, b[j]))

RECURSIVE Expansions(_)
Expansions(p) ==
  IF ~HasBrace(p) THEN {p}
  ELSE LET i == CHOOSE k \in DOMAIN p :
                  p[k] = "{" /\ \A m \in 1..(k - 1) : p[m] # "{"
           j == ClosingBrace(p, i + 1, 0)
       IN UNION {Expansions(SubSeq(p, 1, i - 1) \o alt \o SubSeq(p, j + 1, Len(p))) :
                   alt \in Alternatives(SubSeq(p, i + 1, j - 1), 1, 0, <<>>)}

\* The brace-free pattern q, compiled on its own, matches input; the empty
\* pattern stands for the empty string.
MatchesAlone(q, input) ==
  IF q = <<>> THEN input = <<>>
  ELSE LET c == Compile(q) IN
       c.status = "ok" /\ Exec(c.automata, input, TRUE).r

\* C5: brace expansion is the union of its expansions: a pattern with
\* brace expressions matches an input if and only if one of the
\* combinations prefix + one brace alternative + one suffix alternative,
\* compiled on its own, matches it.
C5_BraceIsUnionOfExpansions ==
  (Matched /\ HasBrace(pattern))
    => (r <=> \E q \in Expansions(pattern) : MatchesAlone(q, str))

\* The parser's result for a pattern.
AstOf(p) == GenAst(Scanner(p).tokens)

\* An Alternation of Concatenations none of which has an Alternation as a
\* child.
FullyFlattened(node) ==
  /\ node.type = "UNION"
  /\ \A i \in DOMAIN node.items :
       /\ node.items[i].type = "CONCAT_GLOB"
       /\ \A k \in DOMAIN node.items[i].basic_glob :
            node.items[i].basic_glob[k].type # "UNION"

\* A text without a character of the pattern syntax.
IsPlainText(q) == \A i \in DOMAIN q : q[i] \notin SyntaxChars

\* C6: nested brace expressions are fully flattened at every depth: the
\* parser's result for a brace pattern is an Alternation of Concatenations
\* without an Alternation child, and every fully expanded string of a
\* pattern of literals is matched.
C6_NestedBracesFlattened ==
  /\ (obj # "none" /\ HasBrace(pattern))
       => (AstOf(pattern).ok /\ FullyFlattened(AstOf(pattern).node.glob))
  /\ (Matched /\ HasBrace(pattern) /\ str \in Expansions(pattern)
        /\ \A q \in Expansions(pattern) : IsPlainText(q))
       => r

\* C7: an empty brace alternative denotes the empty string: P{A,}S matches
\* every input that the pattern P S matches, for every prefix P and suffix
\* S, the empty ones included.
C7_EmptyAlternativeIsEmptyString ==
  \A P \in BraceParts, A \in BraceAlts, S \in BraceParts :
    (Matched /\ pattern = TrailingComma(P, A, S) /\ MatchesAlone(P \o S, str))
      => r

\* C8: a backslash makes the next character a literal: for every character
\* x of the pattern syntax the pattern \x compiles and matches exactly the
\* one-character string x, and in a set \x is the member x, so that [a\xz]
\* matches exactly "a", x and "z".
C8_BackslashMakesLiteral ==
  \A x \in SyntaxChars :
    /\ (obj # "none" /\ pattern = Escaped(x))
         => /\ Compile(pattern).status = "ok"
            /\ Matched => (r <=> str = <<x>>)
    /\ (Matched /\ pattern = EscapedInSet(x))
         => (r <=> str \in {<<"a">>, <<x>>, <<"z">>})

\* C9: in strict mode (glob::Error propagates) the constructor raises on
\* each of the malformed patterns, and no glob object comes to be.
C9_StrictModeRaises ==
  (~noexcept_enabled /\ pattern \in MalformedPatterns) => obj = "raised"

C9_RangeWithoutEndRaised ==
  /\ ~noexcept_enabled
  /\ pattern = <<"[", "a", "-", "]">>
  /\ obj = "raised"

\* C10: in safe mode a pattern that raises in strict mode gives, without
\* raising, a glob object on which glob_match is false for every input,
\* the empty string included.
C10_SafeModeMatchesNothing ==
  (noexcept_enabled /\ obj # "none" /\ Compile(pattern).status = "error")
    => (obj = "live" /\ ~r)

C10_EmptyInputRejected ==
  /\ noexcept_enabled
  /\ pattern = <<"[", "a", "b", "c">>
  /\ Matched
  /\ str = <<>>
  /\ ~r

\* C11: every match call terminates: on every pattern that compiled and
\* every input, Automata::Exec reaches its return, also when a repeating
\* group's body succeeds without consuming input; no glob_match call is
\* left running for ever.
C11_MatchTerminates == obj # "hung"

(***************************************************************************)
(* Paths: the segments of a text split on '/', and the table               *)
(* prefix_matches over pattern segments and input segments.                *)
(***************************************************************************)

\* The segments of text, split on '/', from position j on: current is the
\* segment being read.
RECURSIVE SplitPath(_, _, _)
SplitPath(text, j, current) ==
  CASE j > Len(text) -> <<current>>
    [] text[j] = "/" -> <<current>> \o SplitPath(text, j + 1, <<>>)
    [] OTHER -> SplitPath(text, j + 1, Append(current, text[j]))

Segments(text) == SplitPath(text, 1, <<>>)

Globstar == <<"*", "*">>

HasGlobstarSegment(p) ==
  \E i \in DOMAIN Segments(p) : Segments(p)[i] = Globstar

\* p with every run of stars replaced by one star.
RECURSIVE CollapseStars(_)
CollapseStars(p) ==
  CASE p = <<>> -> <<>>
    [] Len(p) >= 2 /\ p[1] = "*" /\ p[2] = "*" -> CollapseStars(Tail(p))
    [] OTHER -> <<Head(p)>> \o CollapseStars(Tail(p))

\* p has two stars in a row.
HasStarRun(p) == \E i \in 1..(Len(p) - 1) : p[i] = "*" /\ p[i + 1] = "*"

\* segment_matches: an empty pattern segment matches only an empty input
\* segment, any other is matched as a pattern compiled on its own.
SegmentMatches(pattern_segment, input_segment) ==
  MatchesAlone(CollapseStars(pattern_segment), input_segment)

\* prefix_matches[i][j] for the pattern segments ps and input segments is.
RECURSIVE PrefixMatches(_, _, _, _)
PrefixMatches(ps, is, i, j) ==
  CASE i = 0 -> j = 0
    [] i > 0 /\ ps[i] = Globstar ->
         PrefixMatches(ps, is, i - 1, j)
           \/ (j > 0 /\ PrefixMatches(ps, is, i, j - 1))
    [] OTHER ->
         /\ j > 0
         /\ PrefixMatches(ps, is, i - 1, j - 1)
         /\ SegmentMatches(ps[i], is[j])

PathMatches(p, input) ==
  PrefixMatches(Segments(p), Segments(input), Len(Segments(p)),
                Len(Segments(input)))

\* C12: when the pattern split on '/' has a segment that is exactly "**",
\* that segment matches zero or more whole input segments and every other
\* pattern segment exactly one: glob_match returns what the recurrence
\* prefix_matches gives for the segments of the pattern and of the
\* (non-empty) input.
C12_GlobstarMatchesWholeSegments ==
  (Matched /\ HasGlobstarSegment(pattern) /\ str # <<>>)
    => (r <=> PathMatches(pattern, str))

\* C13: a run of two or more stars that is not a whole path segment
\* behaves as one star: a pattern with such a run matches an input if and
\* only if the pattern with the run replaced by one star matches it.
C13_StarRunIsOneStar ==
  (Matched /\ HasStarRun(pattern) /\ ~HasGlobstarSegment(pattern))
    => (r <=> MatchesAlone(CollapseStars(pattern), str))

\* The patterns that start with a group, with inputs they are to match.
GroupAtStartExamples ==
  { <<<<"*", "(", "t", "e", "s", "t", "|", "f", "i", "l", "e", ")">>,
      <<"t", "e", "s", "t", "f", "i", "l", "e">>>>,
    <<<<"*", "(", "[", "A", "-", "Z", "]", ")", "+", "(", "[", "a", "-", "z", "0", "-", "9", "]", ")", ".", "t", "x", "t">>,
      <<"F", "I", "L", "E", "1", ".", "t", "x", "t">>>>,
    <<<<"*", "(", "[", "A", "-", "Z", "]", ")", "+", "(", "[", "a", "-", "z", "0", "-", "9", "]", ")", ".", "t", "x", "t">>,
      <<"f", "i", "l", "e", ".", "t", "x", "t">>>>,
    <<<<"*", "(", "[", "a", "-", "z", "]", ")", "+", "(", "[", "0", "-", "9", "]", ")", ".", "(", "t", "x", "t", "|", "p", "d", "f", ")">>,
      <<"f", "i", "l", "e", "1", "2", "3", ".", "t", "x", "t">>>> }

\* C14: a group's alternatives are matched as a prefix of the remaining
\* input at every offset, offset 0 included: the pattern (A|B)S matches
\* the inputs A S and B S, and the patterns of the tests that start with a
\* group match their inputs.
C14_GroupAtStartMatchesPrefix ==
  /\ (Matched /\ <<pattern, str>> \in GroupAtStartExamples) => r
  /\ \A A \in GroupAlts, B \in GroupAlts, S \in GroupSufs :
       (Matched /\ pattern = GroupOf(<<>>, A, B) \o S /\ str \in {A \o S, B \o S})
         => r

\* C15: when more than one alternative of a group matches at the current
\* offset, the one that consumes the longest prefix is taken: the pattern
\* x(A|B)c matches both x A c and x B c, also when one of A and B is a
\* prefix of the other.
C15_LongestAlternativeSelected ==
  \A A \in GroupAlts, B \in GroupAlts :
    (Matched /\ pattern = <<"x">> \o GroupOf(<<>>, A, B) \o <<"c">>
       /\ str \in {<<"x">> \o A \o <<"c">>, <<"x">> \o B \o <<"c">>})
      => r

\* The patterns that end in an optional or zero-or-more group, with inputs
\* that the part before the group accepts.
TrailingGroupExamples ==
  { <<<<"*", "(", "t", "e", "s", "t", ")">>,
      <<>>>>,
    <<<<"*", "(", "(", "a", "|", "b", ")", "|", "(", "c", "|", "d", ")", ")">>,
      <<>>>>,
    <<<<"a", "?", "(", "b", ")">>,
      <<"a">>>>,
    <<<<"a", "b", "*", "(", "c", ")">>,
      <<"a", "b">>>> }

\* C16: with the input consumed and the automaton in a star or group state
\* that can reach Match without consuming more, the match succeeds: a
\* pattern P K(A|B) with K one of '*' and '?' matches every input that P
\* matches, and the patterns of the tests that end in such a group match
\* the input their first part accepts.
C16_TrailingOptionalMatchesEmptyRest ==
  /\ (Matched /\ <<pattern, str>> \in TrailingGroupExamples) => r
  /\ \A P \in GroupPres, K \in {<<"*">>, <<"?">>}, A \in GroupAlts, B \in GroupAlts :
       (Matched /\ pattern = P \o GroupOf(K, A, B) /\ MatchesAlone(P, str)) => r

\* C17: glob_match with a MatchResults returns an empty capture sequence
\* whenever the match fails; a non-empty sequence is returned only when
\* the match succeeds.
C17_NoCapturesOnFailure == (Matched /\ ~r) => res = <<>>

\* The captures a freshly compiled pattern p returns for input.
FreshCaptures(p, input) ==
  GetMatchedStrings(Exec(Compile(p).automata, input, TRUE).automata)

\* C18: each capture holds only what its wildcard consumed on the current
\* accepting run: after any earlier match calls on the same object, the
\* captures returned with a match of an input are those a freshly compiled
\* pattern returns for that input.
C18_CapturesAsOfFreshPattern ==
  (Matched /\ r /\ Compile(pattern).status = "ok")
    => res = FreshCaptures(pattern, str)

\* C19: the negated set [!a-z] matches a one-character input c if and
\* only if c is not in the range 'a'..'z', and rejects the empty string
\* and every longer string.
C19_NegatedSetMatchesComplement ==
  (Matched /\ pattern = BangSet(<<"a", "-", "z">>))
    => (r <=> /\ Len(str) = 1
              /\ ~(Ord("a") <= Ord(str[1]) /\ Ord(str[1]) <= Ord("z")))

C19_UpperCaseAccepted ==
  /\ Matched
  /\ pattern = BangSet(<<"a", "-", "z">>)
  /\ str = <<"A">>
  /\ r

\* C20: a set that starts with '^' is a negated set: the patterns of the
\* tests match and reject their inputs, and [^X] accepts exactly the
\* one-character inputs that [X] rejects.
C20_CaretNegatesSet ==
  /\ (Matched /\ <<pattern, str>> \in CaretMatches) => r
  /\ (Matched /\ <<pattern, str>> \in CaretRejects) => ~r
  /\ \A X \in SetBodies :
       (Matched /\ pattern = CaretSet(X) /\ Len(str) = 1)
         => (r <=> ~MatchesAlone(PositiveSet(X), str))

\* C21: a brace item x..y is a character range: {x..y} matches exactly
\* the one-character inputs whose code lies between those of x and y,
\* whichever of the two is the larger, and not the text x..y itself.
C21_BraceRangeExpands ==
  \A x \in RangeEnds, y \in RangeEnds :
    (obj # "none" /\ pattern = BraceRange(x, y))
      => /\ obj = "live"
         /\ Matched
              => (r <=> /\ Len(str) = 1
                        /\ \/ Ord(x) <= Ord(str[1]) /\ Ord(str[1]) <= Ord(y)
                           \/ Ord(y) <= Ord(str[1]) /\ Ord(str[1]) <= Ord(x))

\* C22: an operator character outside its enabling context is an ordinary
\* literal: L|R outside every group and L,R outside every brace expression
\* compile without error and match exactly themselves, and (L,R) matches
\* exactly the text L,R.
C22_OperatorOutOfContextIsLiteral ==
  \A L \in OperatorSides, R \in OperatorSides :
    /\ \A op \in {",", "|"} :
         (obj # "none" /\ pattern = Separated(L, op, R))
           => /\ Compile(pattern).status = "ok"
              /\ Matched => (r <=> str = pattern)
    /\ (obj # "none" /\ pattern = CommaInGroup(L, R))
         => /\ Compile(pattern).status = "ok"
            /\ Matched => (r <=> str = Separated(L, ",", R))

\* C23: the empty pattern tokenises to just the end-of-input token,
\* compiles without error, and matches the empty string and nothing else.
C23_EmptyPatternMatchesEmptyString ==
  (obj # "none" /\ pattern = <<>>)
    => /\ Scanner(pattern) = [status |-> "ok", tokens |-> <<Select("EOS")>>]
       /\ obj = "live"
       /\ Matched => (r <=> str = <<>>)

\* C24: glob_create returns NULL when the pattern is invalid, and a
\* non-NULL handle only for a pattern that compiled: a handle to an object
\* stands for a pattern compiled without error, and once glob_create has
\* run the constructor on an invalid pattern the handle is NULL.
C24_GlobCreateReturnsNullOnInvalidPattern ==
  /\ handle = "object" => Compile(pattern).status = "ok"
  /\ (obj # "none" /\ Compile(pattern).status = "error") => handle = "NULL"

\* C25: !(X)S, X a one-character glob and S a literal suffix, matches
\* exactly the inputs cS where c is one character that X does not match;
\* so !([a-z]).txt matches A.txt and 1.txt and rejects a.txt.
C25_NegatedGroupMatchesOtherChar ==
  \A X \in NegBodies, S \in NegSufs :
    (obj # "none" /\ pattern = NegGroup(X, S))
      => /\ obj = "live"
         /\ Matched =>
              (r <=> /\ Len(str) = 1 + Len(S)
                     /\ Tail(str) = S
                     /\ ~MatchesAlone(X, <<Head(str)>>))

\* match_one_ is false in every group state of automata and of the
\* automata its groups hold.
RECURSIVE MatchOneClear(_)
MatchOneClear(automata) ==
  \A i \in DOMAIN automata.states_ :
    LET state == automata.states_[i] IN
    state.type = "GROUP"
      => /\ ~state.match_one_
         /\ \A k \in DOMAIN state.automatas_ : MatchOneClear(state.automatas_[k])

\* C26: whenever no Exec is in progress on the object, match_one_ of every
\* one-or-more group is false, so a call's result does not depend on the
\* calls before it: after matching "abc", a+(b)c still rejects "ac".
C26_MatchOneClearBetweenCalls ==
  obj = "live"
    => /\ MatchOneClear(automata_)
       /\ Matched => (r <=> MatchesAlone(pattern, str))

\* The second call on a+(b)c, after a call in which the group matched,
\* rejects "ac".
C26_SecondCallRejects ==
  /\ pattern = <<"a", "+", "(", "b", ")", "c">>
  /\ obj = "live"
  /\ calls = 2
  /\ Len(res) = 1
  /\ res[1] # <<>>
  /\ str = <<"a", "c">>
  /\ ~r

\* C27: a compiled pattern is not safe for concurrent use.  A call of
\* Exec returns a result other than the one the pattern gives alone only
\* when it overlapped another call on the same object (it then read a
\* match_one_ that the other call wrote); a call that overlapped none
\* returns the result alone.
C27_OnlyOverlappedCallsDiffer ==
  \A t \in Threads :
    (threads[t].pc = "done"
       /\ threads[t].r # MatchesAlone(pattern, threads[t].str))
      => threads[t].overlapped

\* Two overlapping calls on a+(b)c, on "abc" and on "ac": the call on
\* "ac" has returned true.
C27_OverlappedCallAcceptsAc ==
  /\ pattern = <<"a", "+", "(", "b", ")", "c">>
  /\ \E t \in Threads, u \in Threads :
       /\ threads[t].pc = "done"
       /\ threads[t].overlapped
       /\ threads[t].str = <<"a", "c">>
       /\ threads[t].r
       /\ ~MatchesAlone(pattern, threads[t].str)
       /\ threads[u].str = <<"a", "b", "c">>

\* In the tree under node, the body of every GROUP node is a UNION node
\* whose items are all CONCAT_GLOB nodes.
RECURSIVE GroupBodiesAreUnionsOfConcats(_)
GroupBodiesAreUnionsOfConcats(node) ==
  CASE node.type = "GLOB" -> GroupBodiesAreUnionsOfConcats(node.glob)
    [] node.type = "CONCAT_GLOB" ->
         \A i \in DOMAIN node.basic_glob :
           GroupBodiesAreUnionsOfConcats(node.basic_glob[i])
    [] node.type = "UNION" ->
         \A i \in DOMAIN node.items : GroupBodiesAreUnionsOfConcats(node.items[i])
    [] node.type = "GROUP" ->
         /\ node.glob.type = "UNION"
         /\ \A i \in DOMAIN node.glob.items :
              /\ node.glob.items[i].type = "CONCAT_GLOB"
              /\ GroupBodiesAreUnionsOfConcats(node.glob.items[i])
    [] OTHER -> TRUE

\* C28: for every pattern that compiles without error, the body of every
\* group of its syntax tree is an alternation whose members are all
\* concatenations, also when the group holds a brace expression, as in
\* (x{a,b}) and *({a,b}); the compilation of such a pattern is defined.
C28_GroupBodyIsUnionOfConcats ==
  (obj # "none" /\ Compile(pattern).status # "error")
    => /\ GroupBodiesAreUnionsOfConcats(GenAst(Scanner(pattern).tokens).node)
       /\ Compile(pattern).status = "ok"

\* The automaton has a Match and a Fail state as its last two states,
\* match_state_ and fail_state_ are their indices, every successor index
\* of every state lies inside states_, and the automata of its groups are
\* well-formed too.
RECURSIVE WellFormedAutomata(_)
WellFormedAutomata(automata) ==
  LET n == Len(automata.states_) IN
  /\ n >= 2
  /\ automata.match_state_ = n - 2
  /\ automata.fail_state_ = n - 1
  /\ automata.states_[n - 1].type = "MATCH"
  /\ automata.states_[n].type = "FAIL"
  /\ \A i \in 1..n :
       LET state == automata.states_[i] IN
       /\ \A k \in DOMAIN state.next_states_ : state.next_states_[k] \in 0..(n - 1)
       /\ state.type = "GROUP"
            => \A k \in DOMAIN state.automatas_ :
                 WellFormedAutomata(state.automatas_[k])

\* C29: every automaton the compiler produces is well-formed, and the
\* compiler never reads or links a state index outside the state list,
\* also for an empty concatenation: the empty pattern, (), (a|), {,a}.
C29_AutomataWellFormed ==
  (obj # "none" /\ Compile(pattern).status # "error")
    => /\ Compile(pattern).status = "ok"
       /\ WellFormedAutomata(Compile(pattern).automata)
       /\ obj = "live" => WellFormedAutomata(automata_)

\* C30: moving a compiled pattern preserves its behaviour: a call on the
\* new owner returns, and returns what the pattern compiled on its own
\* returns on the same input.
C30_MovePreservesBehaviour ==
  (automata_.back_.moved_from /\ calls > 0)
    => /\ obj = "live"
       /\ r <=> MatchesAlone(pattern, str)

====
